---- MODULE Spec2Model ----
(***************************************************************************)
(* Conversation / incident orchestration of the HomeGuard AI backend       *)
(* (backend/app/main.py, backend/app/rag_service.py).                      *)
(*                                                                         *)
(* Texts are TLA+ strings.  Python's str operations (lower, strip, `in`,   *)
(* startswith, slicing, f-string concatenation) are modelled character by  *)
(* character with Len, SubSeq and \o, so keyword matching is the           *)
(* substring matching the code performs.                                   *)
(***************************************************************************)
EXTENDS Naturals, Sequences, FiniteSets, TLC

VARIABLES
    conversations,             \* main.py:21  dict conversation_id -> list of messages
    incidents,                 \* main.py:22  incident dict, in insertion order
    troubleshooting_sessions,  \* main.py:24  dict conversation_id -> session
    calendar_events,           \* main.py:23  calendar events, in insertion order
    llm,                       \* rag_service.py:93-106  rag_service.llm is set (TRUE) or None
    reply,                     \* the last endpoint call: its request and what the caller got back
    calls,                     \* number of endpoint calls made so far
    history_files,             \* maintenance_predictor.py:47  text of each history file of data_dir
    history_cache,             \* maintenance_predictor.py:33  dict property_id -> list of records
    history_call               \* the last call of the predictor and what it returned

\* the state of the MaintenancePredictor instance (maintenance_predictor.py:300)
predictor_vars == <<history_files, history_cache, history_call>>

vars == <<conversations, incidents, troubleshooting_sessions, calendar_events, llm, reply, calls,
          predictor_vars>>

----------------------------------------------------------------------------
(* Bounds of the model.                                                    *)

\* number of chat calls in a behaviour of Spec
MaxRequests == 3

\* number of endpoint calls in a behaviour of SpecEndpoints
MaxCalls == 2

----------------------------------------------------------------------------
(* Inputs of the endpoints.                                                *)

PROPERTY_ID == "prop-1"

T_ISSUE == "The AC is not working"
T_BROKEN == "still broken"
T_MIXED == "ok now it works but still doesn't turn off"
T_WORKS == "it works"
T_YES == "Yes"
T_GAS == "gas leak"
T_QUESTION == "what is the wifi password?"

\* message texts a tenant sends
Texts == {T_ISSUE, T_BROKEN, T_MIXED, T_WORKS, T_YES, T_GAS, T_QUESTION}

\* further texts a tenant sends in SpecConfirm
T_EMPTY == ""
T_REQUESTED == "User requested escalation"
ConfirmTexts == {T_EMPTY, T_REQUESTED}

\* a landlord's answer in SpecConfirm
T_VISIT == "I will send someone"

\* message texts a landlord sends
LandlordTexts == {"Yes please, there is a gas leak"}

UserIdOf(role) == IF role = "LANDLORD" THEN "landlord-1" ELSE "tenant-1"

----------------------------------------------------------------------------
(* Python str operations.                                                  *)

None == "<None>"

UpperAlpha == "ABCDEFGHIJKLMNOPQRSTUVWXYZ"
LowerAlpha == "abcdefghijklmnopqrstuvwxyz"

\* s[i] for a 1-based index
CharAt(s, i) == SubSeq(s, i, i)

\* str.lower() of one character
LowerChar(ch) ==
    IF \E i \in 1..Len(UpperAlpha) : CharAt(UpperAlpha, i) = ch
    THEN LET i == CHOOSE j \in 1..Len(UpperAlpha) : CharAt(UpperAlpha, j) = ch
         IN  CharAt(LowerAlpha, i)
    ELSE ch

\* str.lower()
RECURSIVE lower(_)
lower(s) ==
    IF Len(s) = 0 THEN ""
    ELSE IF Len(s) = 1 THEN LowerChar(s)
    ELSE LET h == Len(s) \div 2
         IN  lower(SubSeq(s, 1, h)) \o lower(SubSeq(s, h + 1, Len(s)))

IsSpace(ch) == ch \in {" ", "\n", "\t", "\r"}

\* str.strip()
strip(s) ==
    IF \A i \in 1..Len(s) : IsSpace(CharAt(s, i)) THEN ""
    ELSE LET a == CHOOSE i \in 1..Len(s) :
                     /\ ~IsSpace(CharAt(s, i))
                     /\ \A j \in 1..(i - 1) : IsSpace(CharAt(s, j))
             b == CHOOSE i \in 1..Len(s) :
                     /\ ~IsSpace(CharAt(s, i))
                     /\ \A j \in (i + 1)..Len(s) : IsSpace(CharAt(s, j))
         IN  SubSeq(s, a, b)

\* p in s
Contains(s, p) ==
    \E i \in 1..(Len(s) + 1 - Len(p)) : SubSeq(s, i, i + Len(p) - 1) = p

\* s.startswith(p)
StartsWith(s, p) == Len(p) <= Len(s) /\ SubSeq(s, 1, Len(p)) = p

\* s.endswith(p)
EndsWith(s, p) == Len(p) <= Len(s) /\ SubSeq(s, Len(s) + 1 - Len(p), Len(s)) = p

\* s[:n]
Prefix(s, n) == IF Len(s) <= n THEN s ELSE SubSeq(s, 1, n)

\* any(k in s for k in keywords)
ContainsAny(s, keywords) == \E k \in keywords : Contains(s, k)

\* number of (possibly overlapping) occurrences of p in s
CountOcc(s, p) ==
    Cardinality({i \in 1..(Len(s) + 1 - Len(p)) : SubSeq(s, i, i + Len(p) - 1) = p})

\* d[k] = v of a Python dict, given as a function on its keys
DictSet(d, k, v) == [x \in DOMAIN d \cup {k} |-> IF x = k THEN v ELSE d[x]]

\* del d[k]
DictDel(d, k) == [x \in DOMAIN d \ {k} |-> d[x]]

\* str(n) for the small naturals the model formats
DigitStr(n) == CharAt("0123456789", n + 1)

----------------------------------------------------------------------------
(* Intent classification (main.py:148-171, 217-222, 300-307).              *)

Q_WORDS ==
    {"how", "what", "where", "when", "why", "can you", "tell me", "explain",
     "do you know", "show me", "help me", "i need to know", "how do i", "how to",
     "what is", "what are", "where is", "where are"}

Q_PREFIXES == {"how", "what", "where", "when", "why", "can", "tell", "show"}

is_question(msg) ==
    LET msg_lower == strip(lower(msg))
    IN  \/ Contains(msg, "?")
        \/ ContainsAny(msg_lower, Q_WORDS)
        \/ \E p \in Q_PREFIXES : StartsWith(msg_lower, p)

ISSUE_KEYWORDS ==
    {"broken", "not working", "problem", "issue", "faulty", "noise", "leak", "flicker",
     "doesn't work", "won't work", "not functioning", "malfunction", "damaged",
     "out of order", "not responding", "stopped working", "not turning on", "error"}

is_issue_report(msg) == ContainsAny(lower(msg), ISSUE_KEYWORDS)

UNFIXABLE_KEYWORDS ==
    {"stolen", "theft", "robbed", "burglary", "break-in", "broken into",
     "vandalized", "vandalism", "graffiti", "smashed", "destroyed",
     "fire", "flood", "water damage", "structural", "foundation", "ceiling collapse",
     "gas leak", "carbon monoxide", "smoke", "electrical fire",
     "lock broken", "door broken", "window broken", "shattered",
     "missing", "disappeared", "gone", "not there"}

is_unfixable_issue(msg) == ContainsAny(lower(msg), UNFIXABLE_KEYWORDS)

ESCALATION_KEYWORDS ==
    {"yes", "please", "go ahead", "sure", "ok", "okay", "yes please", "yes do it",
     "escalate", "escalate it", "contact landlord", "notify landlord", "tell landlord"}

is_escalation_request(msg) == ContainsAny(strip(lower(msg)), ESCALATION_KEYWORDS)

NEGATIVE_INDICATORS ==
    {"doesn't work", "not working", "still doesn't", "still not", "didn't work",
     "won't work", "isn't working", "not fixed", "not resolved", "didn't help",
     "no change", "same problem", "still broken"}

POSITIVE_PHRASES ==
    {"it works", "it's working", "all good", "ok now", "solved", "yes it works",
     "fixed now", "working now", "resolved", "it's fixed"}

\* main.py:298-300
has_negative(msg) == ContainsAny(strip(lower(msg)), NEGATIVE_INDICATORS)

\* a resolution-positive phrase occurs in the message (main.py:305, right-hand side)
has_positive(msg) == ContainsAny(strip(lower(msg)), POSITIVE_PHRASES)

\* faulty variant of is_resolved: no reply counts as a resolution
is_resolved_never(msg) == FALSE

\* faulty variant of is_resolved: a positive phrase wins over a negative one
is_resolved_positive_only(msg) == has_positive(msg)

\* main.py:303-305, and the test of main.py:310
is_resolved(msg) ==
    LET resolved == IF ~has_negative(msg) THEN has_positive(msg) ELSE FALSE
    IN  resolved /\ ~has_negative(msg)

ESCALATION_PHRASES ==
    {"would you like me to escalate", "escalate this to your landlord",
     "escalate to your landlord", "escalate this"}

\* faulty variant of offers_escalation: any mention of escalating counts as an offer
offers_escalation_any_mention(content) == Contains(lower(content), "escalate")

\* main.py:235-237 applied to the text of the last assistant message
offers_escalation(content) == ContainsAny(lower(content), ESCALATION_PHRASES)

\* the predicates of one message text
Classification(msg) ==
    [is_question |-> is_question(msg),
     is_issue_report |-> is_issue_report(msg),
     is_unfixable_issue |-> is_unfixable_issue(msg),
     is_escalation_request |-> is_escalation_request(msg),
     has_negative |-> has_negative(msg),
     has_positive |-> has_positive(msg),
     is_resolved |-> is_resolved(msg)]

\* Classification, evaluated once for every text of the model
ClassificationTable == [t \in Texts \cup ConfirmTexts |-> Classification(t)]

Classify(msg) ==
    IF msg \in DOMAIN ClassificationTable THEN ClassificationTable[msg]
    ELSE Classification(msg)

----------------------------------------------------------------------------
(* The language-model oracle (rag_service.llm).  An invocation either      *)
(* raises or returns text.  For a triage prompt the text is described by   *)
(* what the parser of triage_issue makes of it: no "{...}" in it, a        *)
(* "{...}" that json.loads rejects, or a JSON object (a dict, given as a   *)
(* record that has exactly the keys of the object).                        *)

LLM_RAISES == [kind |-> "raise"]

JSON_COMPLETE ==
    [category |-> "AC", severity |-> "high",
     suggested_actions |-> <<"Check the thermostat">>, confidence |-> "0.9"]

\* an object without the "category" key
JSON_NO_CATEGORY ==
    [severity |-> "high", suggested_actions |-> <<"Check the thermostat">>,
     confidence |-> "0.9"]

\* an object whose values are outside the enumerations of the prompt
JSON_UNEXPECTED ==
    [category |-> "FRIDGE", severity |-> "urgent",
     suggested_actions |-> <<>>, confidence |-> "1.5"]

LLM_TRIAGE_OUTPUTS ==
    {LLM_RAISES,
     [kind |-> "text"],
     [kind |-> "badjson"],
     [kind |-> "json", obj |-> JSON_COMPLETE],
     [kind |-> "json", obj |-> JSON_NO_CATEGORY],
     [kind |-> "json", obj |-> JSON_UNEXPECTED]}

STEPS_PLAIN == "1. Check the thermostat is set to cool\n2. Check the breaker"
STEPS_CHATTY == "Hi! Check the breaker. If it persists I can escalate this. Thanks!"

LLM_STEPS_OUTPUTS ==
    {LLM_RAISES,
     [kind |-> "text", text |-> STEPS_PLAIN],
     [kind |-> "text", text |-> STEPS_CHATTY]}

\* d[k] raises KeyError
KeyError(d, k) == k \notin DOMAIN d

----------------------------------------------------------------------------
(* rag_service.py: triage.                                                 *)

\* rag_service.py:440-474
_parse_triage_fallback(description) ==
    LET description_lower == lower(description)
        category ==
            IF ContainsAny(description_lower, {"ac", "air conditioning", "cooling", "air conditioner"})
            THEN "AC"
            ELSE IF ContainsAny(description_lower, {"heat", "heater", "heating", "warm"})
            THEN "HEATER"
            ELSE IF ContainsAny(description_lower, {"light", "lamp", "bulb", "flicker"})
            THEN "LIGHTS"
            ELSE IF ContainsAny(description_lower, {"water", "leak", "pipe", "faucet", "toilet"})
            THEN "PLUMBING"
            ELSE IF ContainsAny(description_lower, {"wifi", "internet", "router", "network"})
            THEN "ROUTER"
            ELSE IF ContainsAny(description_lower, {"appliance", "oven", "washer", "dryer", "dishwasher"})
            THEN "APPLIANCES"
            ELSE "OTHER"
        severity ==
            IF ContainsAny(description_lower, {"urgent", "emergency", "broken", "not working", "won't"})
            THEN "high"
            ELSE IF ContainsAny(description_lower, {"sometimes", "occasionally", "minor", "small"})
            THEN "low"
            ELSE "medium"
    IN  [category |-> category, severity |-> severity,
         suggested_actions |-> <<"Schedule inspection", "Contact tenant for more details">>,
         confidence |-> "0.6"]

\* descriptions the chat endpoint passes to triage_issue
Descriptions ==
    Texts \cup ConfirmTexts
    \cup {"User requested escalation: " \o t : t \in Texts \cup ConfirmTexts}

\* _parse_triage_fallback, evaluated once for every description of the model
TriageFallbackTable == [d \in Descriptions |-> _parse_triage_fallback(d)]

ParseTriageFallback(description) ==
    IF description \in DOMAIN TriageFallbackTable THEN TriageFallbackTable[description]
    ELSE _parse_triage_fallback(description)

\* faulty variant of triage_issue: once an invocation of the previous call has
\* failed, the oracle is treated as unavailable
triage_issue_off_after_failure(has_llm, description, out) ==
    IF ~has_llm \/ reply.failed # {}
    THEN [category |-> "OTHER", severity |-> "medium",
          suggested_actions |-> <<"Contact landlord for assistance">>, confidence |-> "0.5"]
    ELSE IF out.kind = "json" THEN out.obj
    ELSE IF out.kind = "text" THEN ParseTriageFallback(description)
    ELSE [category |-> "OTHER", severity |-> "medium",
          suggested_actions |-> <<"Contact landlord">>, confidence |-> "0.3"]

\* rag_service.py:385-438, for the oracle output `out` of its one invocation
\* (has_llm is rag_service.llm being set)
triage_issue(has_llm, description, out) ==
    IF ~has_llm
    THEN [category |-> "OTHER", severity |-> "medium",
          suggested_actions |-> <<"Contact landlord for assistance">>, confidence |-> "0.5"]
    ELSE IF out.kind = "json" THEN out.obj
    ELSE IF out.kind = "text" THEN ParseTriageFallback(description)
    ELSE [category |-> "OTHER", severity |-> "medium",
          suggested_actions |-> <<"Contact landlord">>, confidence |-> "0.3"]

----------------------------------------------------------------------------
(* main.py:89-124: troubleshooting suggestions.                            *)

STATIC_STEPS_NO_LLM ==
    "Can you check if it's plugged in and powered on? Also verify there are no visible signs of damage."

STATIC_STEPS_ON_ERROR ==
    "Can you check if it's plugged in and powered on? Also verify there are no visible signs of damage or error messages."

\* s with leading whitespace removed
lstrip(s) ==
    IF \A i \in 1..Len(s) : IsSpace(CharAt(s, i)) THEN ""
    ELSE LET a == CHOOSE i \in 1..Len(s) :
                     /\ ~IsSpace(CharAt(s, i))
                     /\ \A j \in 1..(i - 1) : IsSpace(CharAt(s, j))
         IN  SubSeq(s, a, Len(s))

\* s with trailing whitespace removed
rstrip(s) ==
    IF \A i \in 1..Len(s) : IsSpace(CharAt(s, i)) THEN ""
    ELSE LET b == CHOOSE i \in 1..Len(s) :
                     /\ ~IsSpace(CharAt(s, i))
                     /\ \A j \in (i + 1)..Len(s) : IsSpace(CharAt(s, j))
         IN  SubSeq(s, 1, b)

\* re.sub(r'^(a1|a2|...)[!.,]?\s*', '', s, flags=re.IGNORECASE)
sub_leading(s, alternatives) ==
    IF \E a \in alternatives : StartsWith(lower(s), a)
    THEN LET a == CHOOSE x \in alternatives : StartsWith(lower(s), x)
             rest == SubSeq(s, Len(a) + 1, Len(s))
             unpunct == IF Len(rest) > 0 /\ CharAt(rest, 1) \in {"!", ".", ","}
                        THEN SubSeq(rest, 2, Len(rest)) ELSE rest
         IN  lstrip(unpunct)
    ELSE s

\* re.sub(r'(a1|a2|...)[!.,]?\s*$', '', s, flags=re.IGNORECASE)
sub_trailing(s, alternatives) ==
    LET body == rstrip(s)
        unpunct == IF Len(body) > 0 /\ CharAt(body, Len(body)) \in {"!", ".", ","}
                   THEN SubSeq(body, 1, Len(body) - 1) ELSE body
        cut(t) == IF \E a \in alternatives : EndsWith(lower(t), a)
                  THEN LET a == CHOOSE x \in alternatives : EndsWith(lower(t), x)
                       IN  SubSeq(t, 1, Len(t) - Len(a))
                  ELSE None
    IN  IF cut(unpunct) # None THEN cut(unpunct)
        ELSE IF cut(body) # None THEN cut(body)
        ELSE s

\* main.py:116-121
clean_steps(text) ==
    LET s0 == strip(text)
        s1 == sub_leading(s0, {"hello", "hi", "hey", "greetings"})
        s2 == sub_leading(s1, {"let me help", "i'm here to help", "i can help"})
    IN  sub_trailing(s2, {"thank you", "thanks", "let me know", "please let us know"})

\* clean_steps, evaluated once for every oracle output of the model
CleanStepsTable ==
    [t \in {out.text : out \in LLM_STEPS_OUTPUTS \ {LLM_RAISES}} |-> clean_steps(t)]

CleanSteps(text) ==
    IF text \in DOMAIN CleanStepsTable THEN CleanStepsTable[text] ELSE clean_steps(text)

\* faulty variant of generate_troubleshooting_steps: a failed invocation yields no text
generate_troubleshooting_steps_empty_on_error(has_llm, out) ==
    IF ~has_llm THEN STATIC_STEPS_NO_LLM
    ELSE IF out.kind = "raise" THEN ""
    ELSE CleanSteps(out.text)

\* main.py:89-124, for the oracle output `out` of its one invocation
generate_troubleshooting_steps(has_llm, out) ==
    IF ~has_llm THEN STATIC_STEPS_NO_LLM
    ELSE IF out.kind = "raise" THEN STATIC_STEPS_ON_ERROR
    ELSE CleanSteps(out.text)

----------------------------------------------------------------------------
(* Incident store (main.py:26-49).                                         *)

\* str(uuid.uuid4()): the n-th identifier drawn, all distinct
uuid4(n) == "0000000" \o DigitStr(n) \o "-0000-4000-8000-000000000000"

IncidentIds(incs) == {incs[i].id : i \in DOMAIN incs}

\* incidents[incident_id]
IncidentById(incs, incident_id) ==
    incs[CHOOSE i \in DOMAIN incs : incs[i].id = incident_id]

\* main.py:32-37 raises KeyError while it builds the record
create_incident_raises(triage) == KeyError(triage, "category") \/ KeyError(triage, "severity")

\* faulty variant of NEW_AWAITING_MORE_INFO: new incidents await more information
AWAITING_MORE_INFO_SET == TRUE

\* awaiting_more_info of a new incident (main.py:36)
NEW_AWAITING_MORE_INFO == FALSE

\* faulty variant of create_incident: the troubleshooting history is dropped
create_incident_without_history(incs, property_id, conversation_id, description, troubleshooting_history, triage) ==
    Append(incs,
           [id |-> uuid4(Len(incs) + 1), property_id |-> property_id,
            conversation_id |-> conversation_id, description |-> description,
            category |-> triage.category, severity |-> triage.severity,
            status |-> "reported", ai_suggested |-> TRUE,
            awaiting_more_info |-> NEW_AWAITING_MORE_INFO])

\* faulty variant of create_incident: the incident is stored without its conversation
create_incident_detached(incs, property_id, conversation_id, description, troubleshooting_history, triage) ==
    LET full_description ==
            IF troubleshooting_history # ""
            THEN description \o "\n\n=== TROUBLESHOOTING ATTEMPTS ===\n" \o troubleshooting_history
            ELSE description
        incident_id == uuid4(Len(incs) + 1)
    IN  Append(incs,
               [id |-> incident_id, property_id |-> property_id,
                conversation_id |-> "", description |-> full_description,
                category |-> triage.category, severity |-> triage.severity,
                status |-> "reported", ai_suggested |-> TRUE,
                awaiting_more_info |-> NEW_AWAITING_MORE_INFO])

\* main.py:26-38; `triage` is the result of the triage_issue call of line 27
create_incident(incs, property_id, conversation_id, description, troubleshooting_history, triage) ==
    LET full_description ==
            IF troubleshooting_history # ""
            THEN description \o "\n\n=== TROUBLESHOOTING ATTEMPTS ===\n" \o troubleshooting_history
            ELSE description
        incident_id == uuid4(Len(incs) + 1)
    IN  Append(incs,
               [id |-> incident_id, property_id |-> property_id,
                conversation_id |-> conversation_id, description |-> full_description,
                category |-> triage.category, severity |-> triage.severity,
                status |-> "reported", ai_suggested |-> TRUE,
                awaiting_more_info |-> NEW_AWAITING_MORE_INFO])

\* the id create_incident returns (main.py:31, 38)
created_id(incs) == uuid4(Len(incs) + 1)

\* faulty variant of update_incident: the id is not looked up
update_incident_any(incs, incident_id, additional_info) ==
    [i \in DOMAIN incs |->
        [incs[i] EXCEPT !.description = @ \o "\n\nAdditional details: " \o additional_info,
                        !.awaiting_more_info = FALSE]]

\* faulty variant of update_incident: the updated incident awaits more information
update_incident_reopening(incs, incident_id, additional_info) ==
    [i \in DOMAIN incs |->
        IF incs[i].id = incident_id
        THEN [incs[i] EXCEPT !.description = @ \o "\n\nAdditional details: " \o additional_info,
                             !.awaiting_more_info = TRUE]
        ELSE incs[i]]

\* main.py:40-43
update_incident(incs, incident_id, additional_info) ==
    [i \in DOMAIN incs |->
        IF incs[i].id = incident_id
        THEN [incs[i] EXCEPT !.description = @ \o "\n\nAdditional details: " \o additional_info,
                             !.awaiting_more_info = FALSE]
        ELSE incs[i]]

\* the condition of main.py:47
is_open_for(inc, conversation_id) ==
    /\ inc.conversation_id = conversation_id
    /\ inc.status = "reported"
    /\ inc.awaiting_more_info

\* main.py:45-49
find_open_incident(incs, conversation_id) ==
    IF \E i \in DOMAIN incs : is_open_for(incs[i], conversation_id)
    THEN LET first == CHOOSE i \in DOMAIN incs :
                         /\ is_open_for(incs[i], conversation_id)
                         /\ \A j \in 1..(i - 1) : ~is_open_for(incs[j], conversation_id)
         IN  incs[first].id
    ELSE None

\* main.py:423-427
_get_incident_details(incs, incident_id) ==
    IF incident_id = None \/ incident_id \notin IncidentIds(incs) THEN None
    ELSE LET inc == IncidentById(incs, incident_id)
         IN  [category |-> inc.category, severity |-> inc.severity,
              description |-> inc.description]

----------------------------------------------------------------------------
(* Troubleshooting sessions (main.py:51-87).                               *)

\* faulty variant of find_troubleshooting_session: no session is ever found
find_troubleshooting_session_missing(sessions, conversation_id) == FALSE

\* main.py:51-52: whether troubleshooting_sessions.get(conversation_id) is a session
find_troubleshooting_session(sessions, conversation_id) == conversation_id \in DOMAIN sessions

\* faulty variant of start_troubleshooting: the issue text is not kept
start_troubleshooting_without_issue(sessions, conversation_id, issue_description, category) ==
    DictSet(sessions, conversation_id,
            [issue |-> "", category |-> category, attempts |-> 0, steps_tried |-> <<>>])

\* faulty variant of start_troubleshooting: the store is rebound to a dict that holds
\* the new session only
start_troubleshooting_only(sessions, conversation_id, issue_description, category) ==
    DictSet(<<>>, conversation_id,
            [issue |-> issue_description, category |-> category,
             attempts |-> 0, steps_tried |-> <<>>])

\* main.py:54-61
start_troubleshooting(sessions, conversation_id, issue_description, category) ==
    DictSet(sessions, conversation_id,
            [issue |-> issue_description, category |-> category,
             attempts |-> 0, steps_tried |-> <<>>])

\* faulty variant of add_troubleshooting_step: the step is recorded but not counted
add_troubleshooting_step_uncounted(sessions, conversation_id, step, tenant_response) ==
    IF conversation_id \in DOMAIN sessions
    THEN [sessions EXCEPT ![conversation_id].steps_tried =
            Append(@, [step |-> step, tenant_response |-> tenant_response])]
    ELSE sessions

\* main.py:63-70
add_troubleshooting_step(sessions, conversation_id, step, tenant_response) ==
    IF conversation_id \in DOMAIN sessions
    THEN [sessions EXCEPT ![conversation_id] =
            [@ EXCEPT !.attempts = @ + 1,
                      !.steps_tried = Append(@, [step |-> step,
                                                 tenant_response |-> tenant_response])]]
    ELSE sessions

\* the loop body of main.py:78-82 for steps i..len(steps_tried)
RECURSIVE summary_steps(_, _)
summary_steps(steps_tried, i) ==
    IF i > Len(steps_tried) THEN ""
    ELSE ("Attempt " \o DigitStr(i) \o ":\n")
         \o ("  - Suggested: " \o steps_tried[i].step \o "\n")
         \o (IF steps_tried[i].tenant_response # ""
             THEN "  - Tenant response: " \o steps_tried[i].tenant_response \o "\n"
             ELSE "")
         \o summary_steps(steps_tried, i + 1)

\* main.py:72-83
get_troubleshooting_summary(sessions, conversation_id) ==
    IF conversation_id \notin DOMAIN sessions THEN ""
    ELSE LET session == sessions[conversation_id]
         IN  ("Original issue: " \o session.issue \o "\n\n")
             \o ("Troubleshooting attempts: " \o DigitStr(session.attempts) \o "\n\n")
             \o summary_steps(session.steps_tried, 1)

\* faulty variant of end_troubleshooting: the session is kept
end_troubleshooting_keeping(sessions, conversation_id) == sessions

\* main.py:85-87
end_troubleshooting(sessions, conversation_id) ==
    IF conversation_id \in DOMAIN sessions THEN DictDel(sessions, conversation_id)
    ELSE sessions

\* faulty variant of attach_tenant_response: the reply is written to every step
attach_tenant_response_to_all(sessions, conversation_id, message) ==
    LET session == sessions[conversation_id]
    IN  [sessions EXCEPT ![conversation_id].steps_tried =
            [i \in DOMAIN session.steps_tried |->
                [session.steps_tried[i] EXCEPT !.tenant_response = message]]]

\* main.py:316-318
attach_tenant_response(sessions, conversation_id, message) ==
    LET session == sessions[conversation_id]
        n == Len(session.steps_tried)
    IN  IF n > 0
        THEN [sessions EXCEPT ![conversation_id].steps_tried[n].tenant_response = message]
        ELSE sessions

\* number of attempts after which an unresolved reply escalates (main.py:321)
ESCALATION_THRESHOLD == 2

\* faulty variant of threshold_reached: one more attempt is allowed
threshold_reached_late(session) == session.attempts > ESCALATION_THRESHOLD

\* the test of main.py:321
threshold_reached(session) == session.attempts >= ESCALATION_THRESHOLD

----------------------------------------------------------------------------
(* Reply texts of the chat endpoint (main.py:262-416).                     *)

\* main.py:262-269
ResponseEscalated(incident_id, inc) ==
    "I've **escalated this to your landlord**.\n\n**Ticket Created:**\n- Ticket ID: "
    \o Prefix(incident_id, 8) \o "\n- Category: " \o inc.category
    \o "\n- Severity: " \o inc.severity
    \o "\n\nYour landlord has been notified and will review your request shortly."

\* main.py:279-286
ResponseUpdated(open_incident_id, inc) ==
    "Thank you for the additional information! I've updated the maintenance ticket (ID: "
    \o Prefix(open_incident_id, 8)
    \o ") with these details.\n\n**Updated Ticket:**\n- Category: " \o inc.category
    \o "\n- Severity: " \o inc.severity
    \o "\n- Description: " \o Prefix(inc.description, 200)
    \o "...\n\nYour landlord has been notified and will review the complete ticket shortly."

\* main.py:311
RESPONSE_RESOLVED == "Great! I'm glad that worked. If you need anything else, just let me know!"

\* main.py:325-332
ResponseThreshold(incident_id, inc) ==
    "I've tried troubleshooting this issue, but it still needs attention. I've **escalated it to your landlord** with all the details of what we've tried.\n\n**Ticket Created:**\n- Ticket ID: "
    \o Prefix(incident_id, 8) \o "\n- Category: " \o inc.category
    \o "\n- Severity: " \o inc.severity
    \o "\n\nThe landlord has been notified with a complete summary of the issue and troubleshooting steps attempted. They'll review and get back to you soon."

\* main.py:343-347
ResponseFurther(troubleshooting_steps) ==
    "Let me help you troubleshoot this further. Try these steps:\n\n"
    \o troubleshooting_steps
    \o "\n\nLet me know if this helps or if the issue persists."

\* main.py:363-370
ResponseUnfixable(incident_id, inc) ==
    "I understand there's an issue that requires immediate attention. I've **created a maintenance ticket** and **notified the landlord**.\n\n**Ticket Created:**\n- Ticket ID: "
    \o Prefix(incident_id, 8) \o "\n- Category: " \o inc.category
    \o "\n- Severity: " \o inc.severity
    \o "\n\nThe landlord has been notified and will address this issue promptly."

\* main.py:382-390
ResponseFirstSteps(category, troubleshooting_steps) ==
    "I understand you're having an issue. Let me help you troubleshoot this first.\n\n**Issue detected:** "
    \o category \o "\n\nHere are some steps to try:\n\n" \o troubleshooting_steps
    \o "\n\nPlease try these steps and let me know if the issue is resolved or if it's still not working."

\* faulty variant of RESPONSE_NO_LLM: the canned reply asks nothing
RESPONSE_NO_LLM_NO_OFFER ==
    "I'm currently unable to process your message with AI assistance. Your message has been saved and the landlord will see it."

\* main.py:415
RESPONSE_NO_LLM ==
    "I'm currently unable to process your message with AI assistance. Your message has been saved and the landlord will see it. Would you like me to escalate this to your landlord?"

\* main.py:416
RESPONSE_SAVED == "Thank you for your message. I'll make sure the landlord sees this."

\* str(e) of the KeyError that a triage result without `key` raises
KeyErrorText(key) == "'" \o key \o "'"

\* category and severity of the incidents the model can create
TicketLabels ==
    LET results == {triage_issue(h, d, out) :
                        h \in BOOLEAN, d \in Descriptions, out \in LLM_TRIAGE_OUTPUTS}
    IN  {[category |-> r.category, severity |-> r.severity] :
            r \in {x \in results : ~create_incident_raises(x)}}

\* categories the first triage of an issue report can yield
IssueCategories ==
    LET results == {triage_issue(h, d, out) :
                        h \in BOOLEAN, d \in Texts, out \in LLM_TRIAGE_OUTPUTS}
    IN  {r.category : r \in {x \in results : ~KeyError(x, "category")}}

\* suggestions generate_troubleshooting_steps can return
StepTexts ==
    {generate_troubleshooting_steps(h, out) : h \in BOOLEAN, out \in LLM_STEPS_OUTPUTS}

\* reply texts of the model that embed oracle output
KnownReplies ==
    {ResponseEscalated(uuid4(n), l) : n \in 1..(MaxRequests + 1), l \in TicketLabels}
    \cup {ResponseThreshold(uuid4(n), l) : n \in 1..(MaxRequests + 1), l \in TicketLabels}
    \cup {ResponseUnfixable(uuid4(n), l) : n \in 1..(MaxRequests + 1), l \in TicketLabels}
    \cup {ResponseFirstSteps(c, t) : c \in IssueCategories, t \in StepTexts}
    \cup {ResponseFurther(t) : t \in StepTexts}
    \cup {RESPONSE_RESOLVED, RESPONSE_NO_LLM, RESPONSE_SAVED}

\* offers_escalation, evaluated once for every reply text above
OffersEscalationTable == [r \in KnownReplies |-> offers_escalation(r)]

OffersEscalation(content) ==
    IF content \in DOMAIN OffersEscalationTable THEN OffersEscalationTable[content]
    ELSE offers_escalation(content)

----------------------------------------------------------------------------
(* Conversation transcripts (main.py:201-237).                             *)

NO_METADATA == [incidentId |-> None, isAISuggestion |-> FALSE]

\* main.py:201-207
\* faulty variant of _add_message: the transcript is rebound to the new message alone
_add_message_replacing(convs, conv_id, role, content, sender_id, sender_type, metadata) ==
    DictSet(convs, conv_id,
            <<[role |-> role, content |-> content, sender_id |-> sender_id,
               sender_type |-> sender_type, metadata |-> metadata]>>)

_add_message(convs, conv_id, role, content, sender_id, sender_type, metadata) ==
    LET msgs == IF conv_id \in DOMAIN convs THEN convs[conv_id] ELSE <<>>
    IN  DictSet(convs, conv_id,
                Append(msgs, [role |-> role, content |-> content, sender_id |-> sender_id,
                              sender_type |-> sender_type, metadata |-> metadata]))

\* conversations.get(conversation_id, [])
Transcript(convs, conversation_id) ==
    IF conversation_id \in DOMAIN convs THEN convs[conversation_id] ELSE <<>>

IsAssistantMessage(msg) == msg.role = "assistant" \/ msg.sender_type = "AI"

\* main.py:224-237
last_message_offered_escalation(convs, conversation_id) ==
    LET msgs == Transcript(convs, conversation_id)
        earlier == SubSeq(msgs, 1, Len(msgs) - 1)
    IN  IF conversation_id \notin DOMAIN convs \/ Len(msgs) < 2 THEN FALSE
        ELSE IF ~\E i \in DOMAIN earlier : IsAssistantMessage(earlier[i]) THEN FALSE
        ELSE LET last == CHOOSE i \in DOMAIN earlier :
                            /\ IsAssistantMessage(earlier[i])
                            /\ \A j \in (i + 1)..Len(earlier) : ~IsAssistantMessage(earlier[j])
                 last_ai_msg == earlier[last].content
             IN  IF last_ai_msg = "" THEN FALSE ELSE OffersEscalation(last_ai_msg)

\* faulty variant of IsIssueSource: the sender of the message is not looked at
IsIssueSource_any_sender(msg) ==
    /\ msg.role = "user"
    /\ msg.content # "" /\ ~Classify(msg.content).is_escalation_request

\* the test of main.py:252-254 on an earlier message
IsIssueSource(msg) ==
    /\ msg.role = "user" /\ msg.sender_type = "TENANT"
    /\ msg.content # "" /\ ~Classify(msg.content).is_escalation_request

\* main.py:249-259
escalation_description(convs, conversation_id, message) ==
    LET msgs == convs[conversation_id]
        earlier == SubSeq(msgs, 1, Len(msgs) - 1)
        found == IF \E i \in DOMAIN earlier : IsIssueSource(earlier[i])
                 THEN LET last == CHOOSE i \in DOMAIN earlier :
                                     /\ IsIssueSource(earlier[i])
                                     /\ \A j \in (i + 1)..Len(earlier) : ~IsIssueSource(earlier[j])
                      IN  earlier[last].content
                 ELSE "User requested escalation"
    IN  IF found = "User requested escalation"
        THEN "User requested escalation: " \o message
        ELSE found

----------------------------------------------------------------------------
(* The chat endpoint (main.py:239-421).                                    *)

\* what a caller got back from its call; fields that a call does not return are None.
\* `failed` names the oracle invocations of the call that raised, `oracle` what the
\* oracle did in the invocation the returned triage result comes from
Reply(endpoint, conversation_id, user_role, message, outcome) ==
    [endpoint |-> endpoint, conversation_id |-> conversation_id, user_role |-> user_role,
     message |-> message, outcome |-> outcome, response |-> None,
     incident_created |-> FALSE, incident_id |-> None, detail |-> None,
     category |-> None, severity |-> None, confidence |-> None,
     oracle |-> None, failed |-> {}]

NoReply == Reply("none", None, None, None, "none")

\* oracle outputs an invocation for a triage prompt can produce now
TriageOutputs == IF llm THEN LLM_TRIAGE_OUTPUTS ELSE {LLM_RAISES}

\* oracle outputs an invocation for a troubleshooting prompt can produce now
StepsOutputs == IF llm THEN LLM_STEPS_OUTPUTS ELSE {LLM_RAISES}

\* what the oracle did in an invocation whose output is `out`
OracleDid(out) == IF ~llm THEN "absent" ELSE out.kind

\* the invocation `name` raised (rag_service.llm.invoke raises; with no llm nothing is invoked)
Failed(name, out) == IF llm /\ out.kind = "raise" THEN {name} ELSE {}

\* faulty variant of Respond: the incident_created flag is left at its default
Respond_flag_unset(req, convs, incs, sessions, response, incident_created, incident_id, failed) ==
    /\ conversations' = convs
    /\ incidents' = incs
    /\ troubleshooting_sessions' = sessions
    /\ reply' = [Reply("chat", req.conversation_id, req.user_role, req.message, "response")
                    EXCEPT !.response = response,
                           !.incident_id = incident_id,
                           !.failed = failed]

\* `return ChatResponse(...)` with the stores as the handler left them
Respond(req, convs, incs, sessions, response, incident_created, incident_id, failed) ==
    /\ conversations' = convs
    /\ incidents' = incs
    /\ troubleshooting_sessions' = sessions
    /\ reply' = [Reply("chat", req.conversation_id, req.user_role, req.message, "response")
                    EXCEPT !.response = response,
                           !.incident_created = incident_created,
                           !.incident_id = incident_id,
                           !.failed = failed]

\* main.py:419-421: HTTPException(status_code=500, detail=str(e))
RaiseHTTP500(req, convs, incs, sessions, detail, failed) ==
    /\ conversations' = convs
    /\ incidents' = incs
    /\ troubleshooting_sessions' = sessions
    /\ reply' = [Reply("chat", req.conversation_id, req.user_role, req.message, "error")
                    EXCEPT !.detail = detail, !.failed = failed]

\* first key of main.py:34 that `triage` lacks
MissingKey(triage) == IF KeyError(triage, "category") THEN "category" ELSE "severity"

AI_METADATA(incident_id) == [incidentId |-> incident_id, isAISuggestion |-> TRUE]

\* faulty variant of landlord_short_circuit: landlord messages are handled like tenant messages
landlord_never_short_circuits(user_role) == FALSE

\* the test of main.py:244
landlord_short_circuit(user_role) == user_role = "LANDLORD"

\* faulty variant of escalation_confirmed: the earlier offer is not looked for
escalation_confirmed_without_offer(convs, conversation_id, message) ==
    Classify(message).is_escalation_request

\* the test of main.py:248; convs already holds the inbound message
escalation_confirmed(convs, conversation_id, message) ==
    /\ Classify(message).is_escalation_request
    /\ last_message_offered_escalation(convs, conversation_id)

\* main.py:249-273
EscalationBranch(req, convs) ==
    \E out \in TriageOutputs :
        LET c == req.conversation_id
            issue_description == escalation_description(convs, c, req.message)
            triage == triage_issue(llm, issue_description, out)
        IN  IF create_incident_raises(triage)
            THEN RaiseHTTP500(req, convs, incidents, troubleshooting_sessions,
                              KeyErrorText(MissingKey(triage)), Failed("triage", out))
            ELSE LET incs2 == create_incident(incidents, req.property_id, c,
                                              issue_description, "", triage)
                     incident_id == created_id(incidents)
                     response == ResponseEscalated(incident_id, IncidentById(incs2, incident_id))
                 IN  Respond(req,
                             _add_message(convs, c, "assistant", response, "ai-assistant", "AI",
                                          AI_METADATA(incident_id)),
                             incs2, troubleshooting_sessions, response, TRUE, incident_id,
                             Failed("triage", out))

\* main.py:277-290
OpenIncidentBranch(req, convs, open_incident_id) ==
    LET c == req.conversation_id
        incs2 == update_incident(incidents, open_incident_id, req.message)
        response == ResponseUpdated(open_incident_id, IncidentById(incs2, open_incident_id))
    IN  Respond(req,
                _add_message(convs, c, "assistant", response, "ai-assistant", "AI",
                             AI_METADATA(open_incident_id)),
                incs2, troubleshooting_sessions, response, FALSE, open_incident_id, {})

\* faulty variant of ResolvedBranch: the reply is returned but not recorded
ResolvedBranch_unrecorded(req, convs) ==
    Respond(req, convs, incidents,
            end_troubleshooting(troubleshooting_sessions, req.conversation_id),
            RESPONSE_RESOLVED, FALSE, None, {})

\* main.py:309-314
ResolvedBranch(req, convs) ==
    LET c == req.conversation_id
    IN  Respond(req,
                _add_message(convs, c, "assistant", RESPONSE_RESOLVED, "ai-assistant", "AI",
                             AI_METADATA(None)),
                incidents, end_troubleshooting(troubleshooting_sessions, c),
                RESPONSE_RESOLVED, FALSE, None, {})

\* main.py:321-337; sessions already holds the tenant response
ThresholdBranch(req, convs, sessions) ==
    \E out \in TriageOutputs :
        LET c == req.conversation_id
            session == sessions[c]
            troubleshooting_summary == get_troubleshooting_summary(sessions, c)
            triage == triage_issue(llm, session.issue, out)
        IN  IF create_incident_raises(triage)
            THEN RaiseHTTP500(req, convs, incidents, sessions,
                              KeyErrorText(MissingKey(triage)), Failed("triage", out))
            ELSE LET incs2 == create_incident(incidents, req.property_id, c, session.issue,
                                              troubleshooting_summary, triage)
                     incident_id == created_id(incidents)
                     response == ResponseThreshold(incident_id, IncidentById(incs2, incident_id))
                 IN  Respond(req,
                             _add_message(convs, c, "assistant", response, "ai-assistant", "AI",
                                          AI_METADATA(incident_id)),
                             incs2, end_troubleshooting(sessions, c),
                             response, TRUE, incident_id, Failed("triage", out))

\* main.py:339-349; sessions already holds the tenant response
ContinueBranch(req, convs, sessions) ==
    \E out \in StepsOutputs :
        LET c == req.conversation_id
            troubleshooting_steps == generate_troubleshooting_steps(llm, out)
            sessions2 == add_troubleshooting_step(sessions, c, troubleshooting_steps, "")
            response == ResponseFurther(troubleshooting_steps)
        IN  Respond(req,
                    _add_message(convs, c, "assistant", response, "ai-assistant", "AI",
                                 AI_METADATA(None)),
                    incidents, sessions2, response, FALSE, None,
                    Failed("steps", out))

\* main.py:293-349
SessionBranch(req, convs) ==
    LET c == req.conversation_id
    IN  IF Classify(req.message).is_resolved
        THEN ResolvedBranch(req, convs)
        ELSE LET sessions1 == attach_tenant_response(troubleshooting_sessions, c, req.message)
             IN  IF threshold_reached(sessions1[c])
                 THEN ThresholdBranch(req, convs, sessions1)
                 ELSE ContinueBranch(req, convs, sessions1)

\* main.py:359-374
UnfixableBranch(req, convs) ==
    \E unused \in TriageOutputs, out \in TriageOutputs :
        LET c == req.conversation_id
            triage == triage_issue(llm, req.message, out)
        IN  IF create_incident_raises(triage)
            THEN RaiseHTTP500(req, convs, incidents, troubleshooting_sessions,
                              KeyErrorText(MissingKey(triage)),
                              Failed("triage", unused) \cup Failed("triage", out))
            ELSE LET incs2 == create_incident(incidents, req.property_id, c,
                                              req.message, "", triage)
                     incident_id == created_id(incidents)
                     response == ResponseUnfixable(incident_id, IncidentById(incs2, incident_id))
                 IN  Respond(req,
                             _add_message(convs, c, "assistant", response, "ai-assistant", "AI",
                                          AI_METADATA(incident_id)),
                             incs2, troubleshooting_sessions, response, TRUE, incident_id,
                             Failed("triage", unused) \cup Failed("triage", out))

\* main.py:377-392
IssueBranch(req, convs) ==
    \E out \in TriageOutputs, steps_out \in StepsOutputs :
        LET c == req.conversation_id
            triage == triage_issue(llm, req.message, out)
        IN  IF KeyError(triage, "category")
            THEN RaiseHTTP500(req, convs, incidents, troubleshooting_sessions,
                              KeyErrorText("category"), Failed("triage", out))
            ELSE LET sessions1 == start_troubleshooting(troubleshooting_sessions, c,
                                                        req.message, triage.category)
                     troubleshooting_steps == generate_troubleshooting_steps(llm, steps_out)
                     sessions2 == add_troubleshooting_step(sessions1, c, troubleshooting_steps, "")
                     response == ResponseFirstSteps(triage.category, troubleshooting_steps)
                 IN  Respond(req,
                             _add_message(convs, c, "assistant", response, "ai-assistant", "AI",
                                          AI_METADATA(None)),
                             incidents, sessions2, response, FALSE, None,
                             Failed("triage", out) \cup Failed("steps", steps_out))

\* main.py:397: rag_service.query is called with the keyword conversation_history,
\* which RAGService.query (rag_service.py:161) does not accept: TypeError
rag_query_raises == TRUE

\* main.py:408: rag_service.general_conversation is no method of RAGService
\* (rag_service.py:15-512): AttributeError
general_conversation_raises == TRUE

\* main.py:394-418
FallbackBranch(req, convs, msg_is_q, msg_is_issue) ==
    LET c == req.conversation_id
        answered == \/ msg_is_q /\ llm /\ ~rag_query_raises
                    \/ ~msg_is_q /\ ~msg_is_issue /\ llm /\ ~general_conversation_raises
        response == IF ~llm THEN RESPONSE_NO_LLM ELSE RESPONSE_SAVED
    IN  /\ ~answered
        /\ Respond(req,
                   _add_message(convs, c, "assistant", response, "ai-assistant", "AI",
                                NO_METADATA),
                   incidents, troubleshooting_sessions, response, FALSE, None, {})

\* faulty variant of FreshBranch: issue-report keywords are tested before unfixable ones
FreshBranchIssueFirst(req, convs) ==
    LET msg_is_q == Classify(req.message).is_question
        msg_is_issue == Classify(req.message).is_issue_report
        msg_is_unfixable == Classify(req.message).is_unfixable_issue
    IN  IF msg_is_issue THEN IssueBranch(req, convs)
        ELSE IF msg_is_unfixable THEN UnfixableBranch(req, convs)
        ELSE FallbackBranch(req, convs, msg_is_q, msg_is_issue)

\* main.py:351-418
FreshBranch(req, convs) ==
    LET msg_is_q == Classify(req.message).is_question
        msg_is_issue == Classify(req.message).is_issue_report
        msg_is_unfixable == Classify(req.message).is_unfixable_issue
    IN  IF msg_is_unfixable THEN UnfixableBranch(req, convs)
        ELSE IF msg_is_issue THEN IssueBranch(req, convs)
        ELSE FallbackBranch(req, convs, msg_is_q, msg_is_issue)

\* main.py:244-418: the handler once main.py:242 has appended the inbound message;
\* convs holds that message
chat_decide(req, convs) ==
    LET c == req.conversation_id
        open_incident_id == find_open_incident(incidents, c)
    IN  IF landlord_short_circuit(req.user_role)
        THEN Respond(req, convs, incidents, troubleshooting_sessions, "", FALSE, None, {})
        ELSE IF escalation_confirmed(convs, c, req.message)
        THEN EscalationBranch(req, convs)
        ELSE IF open_incident_id # None
        THEN OpenIncidentBranch(req, convs, open_incident_id)
        ELSE IF find_troubleshooting_session(troubleshooting_sessions, c)
        THEN SessionBranch(req, convs)
        ELSE FreshBranch(req, convs)

\* faulty variant of chat: a landlord's message is not recorded
chat_dropping_landlord_message(req) ==
    IF req.user_role = "LANDLORD" THEN chat_decide(req, conversations)
    ELSE chat_decide(req, _add_message(conversations, req.conversation_id, "user",
                                       req.message, req.user_id, req.user_role, NO_METADATA))

\* main.py:239-421
chat(req) ==
    chat_decide(req, _add_message(conversations, req.conversation_id, "user", req.message,
                                  req.user_id, req.user_role, NO_METADATA))

\* a ChatRequest (models.py:9-14)
ChatRequest(c, role, m) ==
    [conversation_id |-> c, property_id |-> PROPERTY_ID, user_id |-> UserIdOf(role),
     user_role |-> role, message |-> m]

\* one call of POST /api/chat with a request of `requests`, the call being
\* one of at most `bound`
ChatOver(requests, bound) ==
    /\ calls < bound
    /\ \E req \in requests : chat(req)
    /\ calls' = calls + 1
    /\ UNCHANGED <<calendar_events, llm, predictor_vars>>

\* the chat requests of Spec: one conversation, every text
ChatRequests ==
    {ChatRequest("conv-1", "TENANT", m) : m \in Texts}
    \cup {ChatRequest("conv-1", "LANDLORD", m) : m \in LandlordTexts}

Chat == ChatOver(ChatRequests, MaxRequests)

----------------------------------------------------------------------------
(* POST /api/triage (main.py:437-445, models.py:32-42).                    *)

\* IssueTriageResponse.severity (models.py:39)
SEVERITY_LITERAL == {"low", "medium", "high", "critical"}

\* first key of main.py:442-443 that `result` lacks, or None
MissingResultKey(result) ==
    IF KeyError(result, "category") THEN "category"
    ELSE IF KeyError(result, "severity") THEN "severity"
    ELSE IF KeyError(result, "suggested_actions") THEN "suggested_actions"
    ELSE IF KeyError(result, "confidence") THEN "confidence"
    ELSE None

\* str(e) of the pydantic ValidationError of models.py:39
VALIDATION_ERROR_TEXT == "1 validation error for IssueTriageResponse\nseverity"

\* an IssueTriageRequest (models.py:32-35)
IssueTriageRequest(property_id, description, conversation_id) ==
    [property_id |-> property_id, description |-> description,
     conversation_id |-> conversation_id]

\* main.py:437-445; `out` is the oracle output of the call of line 440,
\* `out2` that of the call create_incident makes (main.py:27)
triage_endpoint(req) ==
    \E out \in TriageOutputs, out2 \in TriageOutputs :
        LET result == triage_issue(llm, req.description, out)
            triage == triage_issue(llm, req.description, out2)
            c == IF req.conversation_id # None THEN req.conversation_id ELSE ""
            base(outcome) == [Reply("triage", req.conversation_id, None, req.description,
                                    outcome)
                                EXCEPT !.oracle = OracleDid(out),
                                       !.failed = Failed("triage", out) \cup
                                                 (IF req.property_id # ""
                                                  THEN Failed("triage", out2) ELSE {})]
        IN  /\ UNCHANGED <<conversations, troubleshooting_sessions>>
            /\ IF req.property_id # "" /\ create_incident_raises(triage)
               THEN /\ incidents' = incidents
                    /\ reply' = [base("error") EXCEPT !.detail = KeyErrorText(MissingKey(triage))]
               ELSE LET incs2 == IF req.property_id # ""
                                 THEN create_incident(incidents, req.property_id, c,
                                                      req.description, "", triage)
                                 ELSE incidents
                        incident_id == IF req.property_id # "" THEN created_id(incidents)
                                       ELSE None
                    IN  /\ incidents' = incs2
                        /\ reply' =
                             IF MissingResultKey(result) # None
                             THEN [base("error") EXCEPT
                                      !.detail = KeyErrorText(MissingResultKey(result))]
                             ELSE IF result.severity \notin SEVERITY_LITERAL
                             THEN [base("error") EXCEPT !.detail = VALIDATION_ERROR_TEXT]
                             ELSE [base("response") EXCEPT
                                      !.category = result.category,
                                      !.severity = result.severity,
                                      !.confidence = result.confidence,
                                      !.incident_id = incident_id]

\* the triage requests of SpecEndpoints
TriageRequests ==
    {IssueTriageRequest(p, T_ISSUE, c) : p \in {PROPERTY_ID, ""}, c \in {"conv-1", None}}

\* one call of POST /api/triage
Triage ==
    /\ calls < MaxCalls
    /\ \E req \in TriageRequests : triage_endpoint(req)
    /\ calls' = calls + 1
    /\ UNCHANGED <<calendar_events, llm, predictor_vars>>

----------------------------------------------------------------------------
(* A direct call of find_open_incident (main.py:45-49).                    *)

\* faulty variant of find_open_incident_call: the lookup marks the reported incidents
\* of the conversation as awaiting more information
find_open_incident_call_marking(conversation_id) ==
    /\ reply' = [Reply("find_open_incident", conversation_id, None, None, "response")
                    EXCEPT !.incident_id = find_open_incident(incidents, conversation_id)]
    /\ incidents' = [i \in DOMAIN incidents |->
                        IF incidents[i].conversation_id = conversation_id
                           /\ incidents[i].status = "reported"
                        THEN [incidents[i] EXCEPT !.awaiting_more_info = TRUE]
                        ELSE incidents[i]]
    /\ UNCHANGED <<conversations, troubleshooting_sessions>>

\* what one call find_open_incident(conversation_id) returns and leaves behind
find_open_incident_call(conversation_id) ==
    /\ reply' = [Reply("find_open_incident", conversation_id, None, None, "response")
                    EXCEPT !.incident_id = find_open_incident(incidents, conversation_id)]
    /\ UNCHANGED <<conversations, incidents, troubleshooting_sessions>>

FindOpenIncident ==
    /\ calls < MaxCalls
    /\ \E c \in {"conv-1", "conv-2"} : find_open_incident_call(c)
    /\ calls' = calls + 1
    /\ UNCHANGED <<calendar_events, llm, predictor_vars>>

\* the chat requests of SpecEndpoints: two conversations, three texts
EndpointChatRequests ==
    {ChatRequest(c, "TENANT", m) : c \in {"conv-1", "conv-2"}, m \in {T_ISSUE, T_YES, T_GAS}}

ChatE == ChatOver(EndpointChatRequests, MaxCalls)

----------------------------------------------------------------------------
(* maintenance_predictor.py: the maintenance history of a property, kept   *)
(* in a text file of data_dir and cached per property.                     *)

\* number of predictor calls in a behaviour of SpecHistory
MaxHistoryCalls == 3

\* s.split(sep) for a separator of one character
RECURSIVE split(_, _)
split(s, sep) ==
    IF ~\E i \in 1..Len(s) : CharAt(s, i) = sep THEN <<s>>
    ELSE LET i == CHOOSE k \in 1..Len(s) :
                     CharAt(s, k) = sep /\ \A j \in 1..(k - 1) : CharAt(s, j) # sep
         IN  <<SubSeq(s, 1, i - 1)>> \o split(SubSeq(s, i + 1, Len(s)), sep)

IsDigits(s) == \A i \in 1..Len(s) : \E d \in 0..9 : CharAt(s, i) = DigitStr(d)

\* int(s) of a string of digits
RECURSIVE ToNat(_)
ToNat(s) ==
    IF Len(s) = 0 THEN 0
    ELSE 10 * ToNat(SubSeq(s, 1, Len(s) - 1))
         + (CHOOSE d \in 0..9 : CharAt(s, Len(s)) = DigitStr(d))

DaysInMonth(y, m) ==
    IF m \in {4, 6, 9, 11} THEN 30
    ELSE IF m = 2
    THEN (IF y % 4 = 0 /\ (y % 100 # 0 \/ y % 400 = 0) THEN 29 ELSE 28)
    ELSE 31

\* datetime.strptime(s, '%Y-%m-%d') raises ValueError (maintenance_predictor.py:71, 75)
strptime_raises(s) ==
    LET parts == split(s, "-")
    IN  \/ Len(parts) # 3
        \/ Len(parts[1]) # 4 \/ ~IsDigits(parts[1]) \/ ToNat(parts[1]) = 0
        \/ Len(parts[2]) \notin {1, 2} \/ ~IsDigits(parts[2])
        \/ Len(parts[3]) \notin {1, 2} \/ ~IsDigits(parts[3])
        \/ ToNat(parts[2]) \notin 1..12
        \/ ToNat(parts[3]) \notin 1..DaysInMonth(ToNat(parts[1]), ToNat(parts[2]))

\* datetime.strptime(s, '%Y-%m-%d'), as <<year, month, day>>
strptime(s) ==
    LET parts == split(s, "-") IN <<ToNat(parts[1]), ToNat(parts[2]), ToNat(parts[3])>>

\* a < b for two datetimes
DateBefore(a, b) ==
    \/ a[1] < b[1]
    \/ a[1] = b[1] /\ a[2] < b[2]
    \/ a[1] = b[1] /\ a[2] = b[2] /\ a[3] < b[3]

\* the line is skipped by maintenance_predictor.py:59-76: it is empty or a comment,
\* has fewer than five fields, or its fourth field is no date
LineSkipped(line) ==
    \/ line = ""
    \/ StartsWith(line, "#")
    \/ Len(split(line, "|")) < 5
    \/ strptime_raises(split(line, "|")[4])

\* maintenance_predictor.py:67-73
ParsedRecord(line) ==
    LET parts == split(line, "|")
    IN  [asset_id |-> parts[1], asset_name |-> parts[2], asset_type |-> parts[3],
         date |-> strptime(parts[4]), maintenance_type |-> parts[5]]

\* maintenance_predictor.py:55-76: the records of the lines of the file, in file order
RECURSIVE ParseLines(_)
ParseLines(lines) ==
    IF lines = <<>> THEN <<>>
    ELSE LET line == strip(lines[1])
         IN  (IF LineSkipped(line) THEN <<>> ELSE <<ParsedRecord(line)>>)
             \o ParseLines(Tail(lines))

\* list.sort(key=lambda x: x['date']) (maintenance_predictor.py:79): stable
RECURSIVE SortByDate(_)
SortByDate(records) ==
    IF records = <<>> THEN <<>>
    ELSE LET sorted == SortByDate(SubSeq(records, 1, Len(records) - 1))
             r == records[Len(records)]
             k == Cardinality({i \in DOMAIN sorted : ~DateBefore(r.date, sorted[i].date)})
         IN  SubSeq(sorted, 1, k) \o <<r>> \o SubSeq(sorted, k + 1, Len(sorted))

\* what maintenance_predictor.py:55-79 reads from a file with the given text
ReadHistory(text) == SortByDate(ParseLines(split(text, "\n")))

\* maintenance_predictor.py:290: the line add_maintenance_record appends
HistoryLine(args) ==
    args.asset_id \o "|" \o args.asset_name \o "|" \o args.asset_type \o "|"
    \o args.maintenance_date \o "|" \o args.maintenance_type \o "\n"

\* maintenance_predictor.py:284-286: the text of a file that add_maintenance_record creates
HistoryHeader(property_id) ==
    "# Maintenance History for " \o property_id
    \o "\n# Format: asset_id|asset_name|asset_type|maintenance_date|maintenance_type\n\n"

\* the arguments of add_maintenance_record after property_id (maintenance_predictor.py:257-265)
MaintenanceArgs(asset_id, asset_name, asset_type, maintenance_date) ==
    [asset_id |-> asset_id, asset_name |-> asset_name, asset_type |-> asset_type,
     maintenance_date |-> maintenance_date, maintenance_type |-> "maintenance"]

NoArgs == MaintenanceArgs("", "", "", "")

\* the records the model adds: two plain ones, the later date first; one with a date
\* that is no date; one whose asset id starts with "#"; one whose name holds a "|"
AddedRecords ==
    {MaintenanceArgs("ac-1", "AC unit", "hvac", "2024-03-01"),
     MaintenanceArgs("w-1", "Washer", "appliance", "2024-01-05"),
     MaintenanceArgs("b-1", "Boiler", "heating", "soon"),
     MaintenanceArgs("#7", "Heater", "heating", "2024-02-01"),
     MaintenanceArgs("d-1", "Washer|Dryer", "appliance", "2024-02-01")}

HistoryPropertyIds == {"prop-1", "prop-2"}

\* a call of the predictor: its arguments, what it returned, and whether it read the file
HistoryCall(op, property_id, args, result, read_file) ==
    [op |-> op, property_id |-> property_id, args |-> args, result |-> result,
     read_file |-> read_file]

NoHistoryCall == HistoryCall("none", None, NoArgs, <<>>, FALSE)

\* maintenance_predictor.py:35-81
load_maintenance_history(property_id) ==
    IF property_id \in DOMAIN history_cache
    THEN /\ history_call' = HistoryCall("load", property_id, NoArgs,
                                        history_cache[property_id], FALSE)
         /\ UNCHANGED <<history_files, history_cache>>
    ELSE IF property_id \notin DOMAIN history_files
    THEN /\ history_call' = HistoryCall("load", property_id, NoArgs, <<>>, FALSE)
         /\ UNCHANGED <<history_files, history_cache>>
    ELSE LET records == ReadHistory(history_files[property_id])
         IN  /\ history_cache' = DictSet(history_cache, property_id, records)
             /\ history_call' = HistoryCall("load", property_id, NoArgs, records, TRUE)
             /\ UNCHANGED history_files

\* maintenance_predictor.py:257-296
add_maintenance_record(property_id, args) ==
    LET text == IF property_id \in DOMAIN history_files THEN history_files[property_id]
                ELSE HistoryHeader(property_id)
    IN  /\ history_files' = DictSet(history_files, property_id, text \o HistoryLine(args))
        /\ history_cache' = DictDel(history_cache, property_id)
        /\ history_call' = HistoryCall("add", property_id, args, <<>>, FALSE)

LoadHistory ==
    /\ calls < MaxHistoryCalls
    /\ \E p \in HistoryPropertyIds : load_maintenance_history(p)
    /\ calls' = calls + 1
    /\ UNCHANGED <<conversations, incidents, troubleshooting_sessions, calendar_events,
                   llm, reply>>

AddRecord ==
    /\ calls < MaxHistoryCalls
    /\ \E p \in HistoryPropertyIds, args \in AddedRecords : add_maintenance_record(p, args)
    /\ calls' = calls + 1
    /\ UNCHANGED <<conversations, incidents, troubleshooting_sessions, calendar_events,
                   llm, reply>>

----------------------------------------------------------------------------
(* Specification.                                                          *)

Init ==
    /\ conversations = <<>>
    /\ incidents = <<>>
    /\ troubleshooting_sessions = <<>>
    /\ calendar_events = <<>>
    /\ llm \in BOOLEAN
    /\ reply = NoReply
    /\ calls = 0
    /\ history_files = <<>>
    /\ history_cache = <<>>
    /\ history_call = NoHistoryCall

Next == Chat

Spec == Init /\ [][Next]_vars

\* chat, triage and store calls in any order
NextE == ChatE \/ Triage \/ FindOpenIncident

SpecEndpoints == Init /\ [][NextE]_vars

----------------------------------------------------------------------------
(* The chat handler statement by statement.  chat is a coroutine whose     *)
(* body (main.py:240-421) has no await: the event loop that runs the       *)
(* handlers starts no other handler between its first and its last         *)
(* statement.  It acquires no lock.                                        *)

\* conversations whose lock a handler holds: main.py defines and acquires none
LocksHeld == {}

\* faulty variant of event_loop_idle: a handler starts while another has not returned
event_loop_always_ready == TRUE

\* no handler is between its first and its last statement
event_loop_idle == reply.outcome # "pending"

\* main.py:242: a handler starts and appends the inbound message
ChatBegin ==
    /\ calls < MaxCalls
    /\ event_loop_idle
    /\ \E req \in EndpointChatRequests :
          /\ conversations' = _add_message(conversations, req.conversation_id, "user",
                                           req.message, req.user_id, req.user_role,
                                           NO_METADATA)
          /\ reply' = Reply("chat", req.conversation_id, req.user_role, req.message, "pending")
    /\ calls' = calls + 1
    /\ UNCHANGED <<incidents, troubleshooting_sessions, calendar_events, llm, predictor_vars>>

\* main.py:244-421: the handler that has started takes its branch and returns
ChatFinish ==
    /\ reply.endpoint = "chat" /\ reply.outcome = "pending"
    /\ chat_decide(ChatRequest(reply.conversation_id, reply.user_role, reply.message),
                   conversations)
    /\ UNCHANGED <<calls, calendar_events, llm, predictor_vars>>

NextSteps == ChatBegin \/ ChatFinish

SpecSteps == Init /\ [][NextSteps]_vars

----------------------------------------------------------------------------
(* One tenant, one conversation, the three texts of a troubleshooting      *)
(* dialogue, and enough calls to end a session at the threshold and report *)
(* an issue again.                                                         *)

\* number of chat calls in a behaviour of SpecDialogue
MaxDialogueCalls == 4

DialogueRequests == {ChatRequest("conv-1", "TENANT", m) : m \in {T_ISSUE, T_BROKEN, T_WORKS}}

ChatD == ChatOver(DialogueRequests, MaxDialogueCalls)

SpecDialogue == Init /\ [][ChatD]_vars

----------------------------------------------------------------------------
(* Tenant and landlord write to one conversation, with texts that make the *)
(* search of main.py:250-259 for the issue description take each of its    *)
(* ways: that of the initial value of issue_description, an empty one, an  *)
(* escalation confirmation and a landlord's message.                       *)

\* number of chat calls in a behaviour of SpecConfirm
MaxConfirmCalls == 3

ConfirmRequests ==
    {ChatRequest("conv-1", "TENANT", m) : m \in {T_ISSUE, T_YES} \cup ConfirmTexts}
    \cup {ChatRequest("conv-1", "LANDLORD", m) : m \in {T_VISIT}}

ChatC == ChatOver(ConfirmRequests, MaxConfirmCalls)

SpecConfirm == Init /\ [][ChatC]_vars

----------------------------------------------------------------------------
(* Calls of update_incident (main.py:40-43) with ids in and not in the     *)
(* store, between chat calls that fill the store and start a session.      *)

\* number of calls in a behaviour of SpecStore
MaxStoreCalls == 3

\* an id no incident has
UNKNOWN_INCIDENT_ID == "no-such-incident"

T_DETAILS == "It started yesterday"

\* what one call update_incident(incident_id, additional_info) leaves behind; the
\* function has no raise and no return value
update_incident_call(incident_id, additional_info) ==
    /\ reply' = [Reply("update_incident", None, None, additional_info, "response")
                    EXCEPT !.incident_id = incident_id]
    /\ incidents' = update_incident(incidents, incident_id, additional_info)
    /\ UNCHANGED <<conversations, troubleshooting_sessions>>

UpdateIncident ==
    /\ calls < MaxStoreCalls
    /\ \E incident_id \in {uuid4(1), uuid4(2), UNKNOWN_INCIDENT_ID} :
           update_incident_call(incident_id, T_DETAILS)
    /\ calls' = calls + 1
    /\ UNCHANGED <<calendar_events, llm, predictor_vars>>

StoreChatRequests == {ChatRequest("conv-1", "TENANT", m) : m \in {T_ISSUE, T_GAS}}

ChatS == ChatOver(StoreChatRequests, MaxStoreCalls)

NextS == ChatS \/ UpdateIncident

SpecStore == Init /\ [][NextS]_vars

----------------------------------------------------------------------------
(* POST /api/calendar/events (main.py:481-494, models.py:57-67), between   *)
(* chat and triage calls that create incidents.                            *)

\* number of calls in a behaviour of SpecCalendar
MaxCalendarCalls == 3

\* str(uuid.uuid4()) of main.py:483: the n-th event identifier, apart from every
\* incident identifier
event_uuid4(n) == "e000000" \o DigitStr(n) \o "-0000-4000-8000-000000000000"

\* a CalendarEventRequest (models.py:57-67)
CalendarEventRequest(status, start_time, incident_id) ==
    [property_id |-> PROPERTY_ID, type |-> "MAINTENANCE", title |-> "Repair visit",
     start_time |-> start_time, end_time |-> "2026-01-05T12:00", status |-> status,
     tenant_id |-> None, asset_id |-> None, incident_id |-> incident_id,
     description |-> None]

\* main.py:484-489
CalendarEventRecord(event_id, event) ==
    [id |-> event_id, property_id |-> event.property_id, type |-> event.type,
     title |-> event.title, start_time |-> event.start_time, end_time |-> event.end_time,
     status |-> event.status, tenant_id |-> event.tenant_id, asset_id |-> event.asset_id,
     incident_id |-> event.incident_id, description |-> event.description,
     is_ai_suggested |-> FALSE]

\* faulty variant of schedule_incident: a cancelled event puts the incident back to
\* reported
schedule_incident_unless_cancelled(inc, event) ==
    LET inc2 == [inc EXCEPT !.status = IF event.status = "cancelled" THEN "reported"
                                       ELSE "scheduled"]
    IN  IF "scheduled_at" \notin DOMAIN inc2
        THEN DictSet(inc2, "scheduled_at", event.start_time)
        ELSE inc2

\* main.py:491-493 on the incident the event names
schedule_incident(inc, event) ==
    LET inc2 == [inc EXCEPT !.status = "scheduled"]
    IN  IF "scheduled_at" \notin DOMAIN inc2
        THEN DictSet(inc2, "scheduled_at", event.start_time)
        ELSE inc2

\* main.py:481-494
create_calendar_event(event) ==
    LET event_id == event_uuid4(Len(calendar_events) + 1)
    IN  /\ calendar_events' = Append(calendar_events, CalendarEventRecord(event_id, event))
        /\ incidents' =
             IF event.incident_id # None /\ event.incident_id \in IncidentIds(incidents)
             THEN [i \in DOMAIN incidents |->
                      IF incidents[i].id = event.incident_id
                      THEN schedule_incident(incidents[i], event)
                      ELSE incidents[i]]
             ELSE incidents
        /\ reply' = [Reply("calendar", None, None, None, "response")
                        EXCEPT !.incident_id = event.incident_id]
        /\ UNCHANGED <<conversations, troubleshooting_sessions>>

\* the calendar requests of SpecCalendar: for an incident of the store, for an id the
\* store does not hold, for no incident; confirmed and cancelled
CalendarRequests ==
    {CalendarEventRequest(s, t, i) :
        s \in {"confirmed", "cancelled"},
        t \in {"2026-01-05T10:00"},
        i \in {uuid4(1), uuid4(2), "no-such-incident", None}}

\* one call of POST /api/calendar/events
Calendar ==
    /\ calls < MaxCalendarCalls
    /\ \E event \in CalendarRequests : create_calendar_event(event)
    /\ calls' = calls + 1
    /\ UNCHANGED <<llm, predictor_vars>>

CalendarChatRequests == {ChatRequest("conv-1", "TENANT", m) : m \in {T_GAS, T_ISSUE}}

ChatK == ChatOver(CalendarChatRequests, MaxCalendarCalls)

\* one call of POST /api/triage that names a property
TriageK ==
    /\ calls < MaxCalendarCalls
    /\ triage_endpoint(IssueTriageRequest(PROPERTY_ID, T_ISSUE, "conv-1"))
    /\ calls' = calls + 1
    /\ UNCHANGED <<calendar_events, llm, predictor_vars>>

NextK == ChatK \/ TriageK \/ Calendar

SpecCalendar == Init /\ [][NextK]_vars

----------------------------------------------------------------------------
(* One tenant and the landlord in one conversation, with the texts that    *)
(* the handler answers with a canned reply and the confirmation "Yes".     *)

\* number of chat calls in a behaviour of SpecCanned
MaxCannedCalls == 3

CannedRequests ==
    {ChatRequest("conv-1", "TENANT", m) : m \in {T_QUESTION, T_YES} \cup ConfirmTexts}
    \cup {ChatRequest("conv-1", "LANDLORD", m) : m \in {T_VISIT}}

ChatN == ChatOver(CannedRequests, MaxCannedCalls)

SpecCanned == Init /\ [][ChatN]_vars

----------------------------------------------------------------------------
(* The maintenance predictor alone: records added to and histories loaded  *)
(* from the files of two properties.                                       *)

NextH == LoadHistory \/ AddRecord

SpecHistory == Init /\ [][NextH]_vars

----------------------------------------------------------------------------
(* Properties.                                                             *)

ConversationIds == {"conv-1", "conv-2", ""}

\* positions in the store of the incidents of conversation c
IncidentsOf(c) == {i \in DOMAIN incidents : incidents[i].conversation_id = c}

\* a tenant's chat call has just returned
TenantChatReturned == reply.endpoint = "chat" /\ reply.user_role = "TENANT"

\* this step is a chat call that handles a tenant message
TenantChatStep ==
    calls' = calls + 1 /\ reply'.endpoint = "chat" /\ reply'.user_role = "TENANT"

\* the transcript of the step's conversation when the branch is chosen (main.py:243)
TranscriptWithInbound ==
    _add_message(conversations, reply'.conversation_id, "user", reply'.message,
                 UserIdOf(reply'.user_role), reply'.user_role, NO_METADATA)

\* the step's message takes the escalation-confirmation branch (main.py:248)
EscalationBranchApplies ==
    escalation_confirmed(TranscriptWithInbound, reply'.conversation_id, reply'.message)

\* number of steps recorded for conversation c
StepCount(sessions, c) == IF c \in DOMAIN sessions THEN Len(sessions[c].steps_tried) ELSE 0

\* the reply text is one of the two troubleshooting suggestions (main.py:343, 382)
IsTroubleshootingSuggestion(response) ==
    \/ StartsWith(response, "Let me help you troubleshoot this further.")
    \/ StartsWith(response, "I understand you're having an issue. Let me help you troubleshoot this first.")

\* the texts of the user messages of conversation c, in order
UserTexts(c) ==
    LET us == SelectSeq(Transcript(conversations, c), LAMBDA m : m.role = "user")
    IN  [i \in DOMAIN us |-> us[i].content]

\* every user message of conversation c was sent by a tenant
OnlyTenantMessages(c) ==
    \A i \in DOMAIN Transcript(conversations, c) :
        Transcript(conversations, c)[i].role = "user"
            => Transcript(conversations, c)[i].sender_type = "TENANT"

\* an issue report that is not unfixable (main.py:359, 377)
FixableIssueReport(m) == Classify(m).is_issue_report /\ ~Classify(m).is_unfixable_issue

\* a reply that reports the issue as not fixed (main.py:300); main.py:303-305 never
\* treats such a reply as resolved
UnresolvedReply(m) == Classify(m).has_negative

\* conv-1 has received exactly: a fixable issue report and n unresolved replies, all
\* from the tenant, and the call for the last of them has just returned
AfterUnresolvedReplies(n) ==
    LET t == UserTexts("conv-1")
    IN  /\ TenantChatReturned /\ reply.conversation_id = "conv-1"
        /\ OnlyTenantMessages("conv-1")
        /\ Len(t) = n + 1
        /\ FixableIssueReport(t[1])
        /\ \A i \in 2..(n + 1) : UnresolvedReply(t[i])

\* the first k calls of conv-1 were answered with troubleshooting suggestions
AnsweredWithSuggestions(k) ==
    LET msgs == Transcript(conversations, "conv-1")
    IN  /\ Len(msgs) >= 2 * k
        /\ \A i \in 1..k : /\ msgs[2 * i].role = "assistant"
                           /\ IsTroubleshootingSuggestion(msgs[2 * i].content)

\* number of steps the troubleshooting summary in a description lists
SummaryStepCount(description) == CountOcc(description, "  - Suggested: ")

\* C1: after any sequence of calls every conversation has at most one incident with
\* awaiting_more_info = true and at most one troubleshooting session.
AtMostOneAwaitingIncidentAndOneSession ==
    \A c \in ConversationIds :
        /\ Cardinality({i \in IncidentsOf(c) : incidents[i].awaiting_more_info}) <= 1
        /\ Cardinality({k \in DOMAIN troubleshooting_sessions : k = c}) <= 1

\* a conversation holds several incidents
SeveralIncidentsInOneConversation ==
    \E c \in ConversationIds : Cardinality(IncidentsOf(c)) >= 2

\* C2: a fixable issue report followed by two unresolved tenant replies escalates exactly
\* at the second unresolved reply: the first unresolved reply creates no incident, the
\* second returns incident_created = true, and the summary in that incident's
\* description lists exactly 2 steps.
EscalatesExactlyAtSecondUnresolvedReply ==
    /\ AfterUnresolvedReplies(1) => (incidents = <<>> /\ ~reply.incident_created)
    /\ AfterUnresolvedReplies(2) =>
          /\ reply.incident_created
          /\ SummaryStepCount(IncidentById(incidents, reply.incident_id).description) = 2

\* C3: a tenant message classified as unfixable, handled with no active session and no
\* open incident, creates an incident in that request (incident_created = true) and
\* creates no troubleshooting session.
UnfixableCreatesIncidentAtOnce ==
    [][(/\ TenantChatStep
        /\ Classify(reply'.message).is_unfixable_issue
        /\ ~find_troubleshooting_session(troubleshooting_sessions, reply'.conversation_id)
        /\ find_open_incident(incidents, reply'.conversation_id) = None)
       => /\ reply'.incident_created
          /\ Len(incidents') = Len(incidents) + 1
          /\ ~find_troubleshooting_session(troubleshooting_sessions',
                                           reply'.conversation_id)]_vars

\* C4 as stated: in any conversation state a tenant message classified as unfixable is
\* never answered with a troubleshooting suggestion and never adds a troubleshooting step.
UnfixableNeverTroubleshootsInAnyState ==
    [][(TenantChatStep /\ Classify(reply'.message).is_unfixable_issue)
       => /\ ~IsTroubleshootingSuggestion(reply'.response)
          /\ StepCount(troubleshooting_sessions', reply'.conversation_id)
                <= StepCount(troubleshooting_sessions, reply'.conversation_id)]_vars

\* C4: when the conversation has no troubleshooting session, or its session has reached
\* 2 attempts, a tenant message classified as unfixable is never answered with a
\* troubleshooting suggestion and never adds a troubleshooting step.
UnfixableSkipsTroubleshootingOutsideEarlySession ==
    [][(/\ TenantChatStep
        /\ Classify(reply'.message).is_unfixable_issue
        /\ \/ ~find_troubleshooting_session(troubleshooting_sessions, reply'.conversation_id)
           \/ threshold_reached(troubleshooting_sessions[reply'.conversation_id]))
       => /\ ~IsTroubleshootingSuggestion(reply'.response)
          /\ StepCount(troubleshooting_sessions', reply'.conversation_id)
                <= StepCount(troubleshooting_sessions, reply'.conversation_id)]_vars

\* an unfixable message, sent to a session that had reached 2 attempts, got a ticket
UnfixableEscalatedAtThreshold ==
    /\ TenantChatReturned /\ reply.message = T_GAS
    /\ reply.incident_created
    /\ StartsWith(reply.response, "I've tried troubleshooting this issue")
    /\ SummaryStepCount(IncidentById(incidents, reply.incident_id).description) = 2

\* the step's message reached conversation c while a session was active there and holds
\* both a resolution-positive and a resolution-negative phrase
MixedReplyStep ==
    /\ TenantChatStep
    /\ find_troubleshooting_session(troubleshooting_sessions, reply'.conversation_id)
    /\ Classify(reply'.message).has_positive
    /\ Classify(reply'.message).has_negative

\* the step's message is the tenant response of the step that was last when it arrived:
\* in the session, or in the summary of the incident the session was escalated into
AttachedToLastStep ==
    LET c == reply'.conversation_id
        n == StepCount(troubleshooting_sessions, c)
    IN  IF c \in DOMAIN troubleshooting_sessions'
        THEN troubleshooting_sessions'[c].steps_tried[n].tenant_response = reply'.message
        ELSE /\ reply'.incident_created
             /\ Contains(IncidentById(incidents', reply'.incident_id).description,
                         "  - Tenant response: " \o reply'.message \o "\n")

\* C5 as stated: during an active session a tenant message with both a positive and a
\* negative phrase is treated as unresolved: the resolved branch does not end the
\* session and the message is attached as the tenant response of the last step.
MixedReplyIsUnresolved ==
    [][MixedReplyStep
       => /\ reply'.response # RESPONSE_RESOLVED
          /\ AttachedToLastStep]_vars

\* C5: the same, for a message that does not take the escalation-confirmation branch.
MixedReplyIsUnresolvedUnlessEscalationConfirmed ==
    [][(MixedReplyStep /\ ~EscalationBranchApplies)
       => /\ reply'.response # RESPONSE_RESOLVED
          /\ AttachedToLastStep]_vars

\* a mixed message was attached to the first step and answered with a further suggestion
MixedReplyAttached ==
    /\ TenantChatReturned /\ reply.message = T_MIXED
    /\ find_troubleshooting_session(troubleshooting_sessions, reply.conversation_id)
    /\ troubleshooting_sessions[reply.conversation_id].steps_tried[1].tenant_response = T_MIXED
    /\ StartsWith(reply.response, "Let me help you troubleshoot this further.")

\* C6: a chat call whose role is LANDLORD returns an empty reply text with
\* incident_created = false, in every conversation state and for every text.
LandlordGetsEmptyReply ==
    (reply.endpoint = "chat" /\ reply.user_role = "LANDLORD")
        => /\ reply.outcome = "response"
           /\ reply.response = ""
           /\ ~reply.incident_created

\* a landlord wrote into a conversation with an active session and got the empty reply
LandlordRepliedDuringSession ==
    /\ reply.endpoint = "chat" /\ reply.user_role = "LANDLORD"
    /\ reply.response = ""
    /\ find_troubleshooting_session(troubleshooting_sessions, reply.conversation_id)

\* the step's message is an escalation confirmation only, and the last assistant message
\* before it offers no escalation (or there is none)
UnofferedConfirmationStep ==
    /\ TenantChatStep
    /\ Classify(reply'.message).is_escalation_request
    /\ ~Classify(reply'.message).is_issue_report
    /\ ~Classify(reply'.message).is_unfixable_issue
    /\ ~last_message_offered_escalation(TranscriptWithInbound, reply'.conversation_id)

\* C7 as stated: in any conversation state, an escalation confirmation with no offer in
\* the most recent assistant message before it creates no incident.
UnofferedConfirmationCreatesNoIncident ==
    [][UnofferedConfirmationStep
       => (incidents' = incidents /\ ~reply'.incident_created)]_vars

\* C7: the same, unless a troubleshooting session that has reached 2 attempts is active
\* in the conversation.
UnofferedConfirmationCreatesNoIncidentBelowThreshold ==
    [][(/\ UnofferedConfirmationStep
        /\ ~(/\ find_troubleshooting_session(troubleshooting_sessions, reply'.conversation_id)
             /\ threshold_reached(troubleshooting_sessions[reply'.conversation_id])))
       => (incidents' = incidents /\ ~reply'.incident_created)]_vars

\* "Yes" was sent during a session after a suggestion that offered nothing: no incident
UnofferedYesDuringSession ==
    /\ TenantChatReturned /\ reply.message = T_YES
    /\ reply.outcome = "response" /\ ~reply.incident_created
    /\ incidents = <<>>
    /\ find_troubleshooting_session(troubleshooting_sessions, reply.conversation_id)

\* the attempt counter of the session of conv-1 is n
AttemptsOfSession(n) ==
    /\ find_troubleshooting_session(troubleshooting_sessions, "conv-1")
    /\ troubleshooting_sessions["conv-1"].attempts = n

TenantChatAlwaysReplies == TenantChatReturned => reply.outcome = "response"

\* this step is a chat call
ChatStep == calls' = calls + 1 /\ reply'.endpoint = "chat"

\* the transcript of the step's conversation grew by exactly the inbound user message
\* followed by one assistant message that carries the returned reply text
AppendedInboundAndReply ==
    LET c == reply'.conversation_id
        old == Transcript(conversations, c)
        new == Transcript(conversations', c)
    IN  /\ Len(new) = Len(old) + 2
        /\ SubSeq(new, 1, Len(old)) = old
        /\ new[Len(old) + 1].role = "user"
        /\ new[Len(old) + 1].content = reply'.message
        /\ new[Len(old) + 2].role = "assistant"
        /\ new[Len(old) + 2].content = reply'.response

\* C11 as stated: every chat call that returns a response, whichever branch it takes,
\* has appended exactly one assistant message carrying the returned reply text after
\* the inbound user message.
EveryResponseIsRecorded ==
    [][(ChatStep /\ reply'.outcome = "response") => AppendedInboundAndReply]_vars

\* C11: every TENANT chat call that returns a response has appended exactly one
\* assistant message carrying the returned reply text after the inbound user message;
\* a LANDLORD call appends the inbound message only.
EveryTenantResponseIsRecorded ==
    [][/\ (TenantChatStep /\ reply'.outcome = "response") => AppendedInboundAndReply
       /\ (ChatStep /\ reply'.user_role = "LANDLORD")
            => Transcript(conversations', reply'.conversation_id)
                 = Append(Transcript(conversations, reply'.conversation_id),
                          [role |-> "user", content |-> reply'.message,
                           sender_id |-> UserIdOf("LANDLORD"), sender_type |-> "LANDLORD",
                           metadata |-> NO_METADATA])]_vars

\* the closing acknowledgment of a resolved session is the last message of the transcript
ResolvedReplyRecorded ==
    LET msgs == Transcript(conversations, reply.conversation_id)
    IN  /\ TenantChatReturned /\ reply.response = RESPONSE_RESOLVED
        /\ Len(msgs) >= 4
        /\ msgs[Len(msgs)].role = "assistant"
        /\ msgs[Len(msgs)].content = RESPONSE_RESOLVED
        /\ msgs[Len(msgs) - 1].content = reply.message

\* C12: a chat call adds at most one incident to the store, the response has
\* incident_created = true exactly when the call added an incident, and then the
\* returned incident_id is the id of the incident just added.
IncidentCreatedFlagMatchesStore ==
    [][ChatStep
       => /\ Len(incidents') \in {Len(incidents), Len(incidents) + 1}
          /\ reply'.incident_created <=> (Len(incidents') = Len(incidents) + 1)
          /\ reply'.incident_created
               => /\ reply'.incident_id = incidents'[Len(incidents')].id
                  /\ reply'.incident_id \notin IncidentIds(incidents)]_vars

\* a call added a second incident and returned its id
SecondIncidentReturned ==
    /\ reply.endpoint = "chat" /\ reply.incident_created
    /\ Len(incidents) >= 2
    /\ reply.incident_id = incidents[Len(incidents)].id

IncidentsOfIn(incs, c) == SelectSeq(incs, LAMBDA inc : inc.conversation_id = c)

\* C14: a chat call for conversation A leaves the transcript of every other
\* conversation B, B's troubleshooting session and every incident of B unchanged,
\* also when calls for A and B alternate.
OtherConversationsUnchanged ==
    [][ChatStep
       => \A b \in ConversationIds \ {reply'.conversation_id} :
            /\ Transcript(conversations', b) = Transcript(conversations, b)
            /\ (b \in DOMAIN troubleshooting_sessions')
                  <=> (b \in DOMAIN troubleshooting_sessions)
            /\ b \in DOMAIN troubleshooting_sessions
                  => troubleshooting_sessions'[b] = troubleshooting_sessions[b]
            /\ IncidentsOfIn(incidents', b) = IncidentsOfIn(incidents, b)]_vars

\* a call for conv-2 started a session while conv-1 keeps its own
TwoConversationsInTroubleshooting ==
    /\ reply.endpoint = "chat" /\ reply.conversation_id = "conv-2"
    /\ DOMAIN troubleshooting_sessions = {"conv-1", "conv-2"}
    /\ Len(Transcript(conversations, "conv-1")) = 2

\* s is a prefix of t
IsPrefixOf(s, t) == Len(s) <= Len(t) /\ SubSeq(t, 1, Len(s)) = s

\* C15: a transcript is append-only: in every step of the handler the transcript of
\* every conversation before the step is a prefix of the one after it, and when a
\* call has appended its inbound message and not yet chosen a branch, that message
\* is the one new message of its transcript.
TranscriptIsAppendOnly ==
    [][/\ \A c \in DOMAIN conversations :
            /\ c \in DOMAIN conversations'
            /\ IsPrefixOf(conversations[c], conversations'[c])
       /\ reply'.outcome = "pending"
            => LET before == Transcript(conversations, reply'.conversation_id)
                   after  == Transcript(conversations', reply'.conversation_id)
               IN  /\ Len(after) = Len(before) + 1
                   /\ after[Len(after)].role = "user"
                   /\ after[Len(after)].content = reply'.message]_vars

\* two calls have returned and the transcript holds both exchanges in order
TwoExchangesRecorded ==
    LET msgs == Transcript(conversations, reply.conversation_id)
    IN  /\ reply.outcome = "response" /\ calls = 2
        /\ Len(msgs) = 4
        /\ msgs[1].role = "user" /\ msgs[2].role = "assistant"
        /\ msgs[3].content = reply.message /\ msgs[4].content = reply.response

\* the categories and severities of the triage prompt (rag_service.py:409-410)
IncidentCategories == {"AC", "HEATER", "LIGHTS", "PLUMBING", "APPLIANCES", "ROUTER", "OTHER"}
IncidentSeverities == {"low", "medium", "high", "critical"}

\* C16: every incident in the store has a category among AC, HEATER, LIGHTS,
\* PLUMBING, APPLIANCES, ROUTER, OTHER and a severity among low, medium, high,
\* critical, whatever text the oracle returned to the triage call.
IncidentsHaveEnumCategoryAndSeverity ==
    \A i \in 1..Len(incidents) :
        /\ incidents[i].category \in IncidentCategories
        /\ incidents[i].severity \in IncidentSeverities

\* C17: triage_issue degrades to the keyword fallback whenever the oracle is
\* missing, its call fails or its output cannot be parsed as structured data: in
\* each of the three cases the result carries the keyword-derived category, the
\* keyword-derived severity and confidence 0.6.
TriageDegradesToKeywordFallback ==
    (/\ reply.endpoint = "triage"
     /\ reply.outcome = "response"
     /\ reply.oracle \in {"absent", "raise", "badjson", "text"})
        => /\ reply.category = ParseTriageFallback(reply.message).category
           /\ reply.severity = ParseTriageFallback(reply.message).severity
           /\ reply.confidence = "0.6"

\* C18: whenever a chat call creates an incident for a conversation (by escalation
\* confirmation, at the threshold or for an unfixable issue), no troubleshooting
\* session exists for that conversation when the call returns.
NoSessionAfterIncidentCreated ==
    (/\ reply.endpoint = "chat"
     /\ reply.outcome = "response"
     /\ reply.incident_created)
        => reply.conversation_id \notin DOMAIN troubleshooting_sessions

\* the fields an incident record must carry
IncidentFields == {"id", "conversation_id", "description", "category", "severity", "status"}

\* no session without a step or with a miscounted one, no half-created incident
StoresConsistent(incs, sessions) ==
    /\ \A c \in DOMAIN sessions :
           /\ Len(sessions[c].steps_tried) >= 1
           /\ sessions[c].attempts = Len(sessions[c].steps_tried)
    /\ \A i \in 1..Len(incs) : IncidentFields \subseteq DOMAIN incs[i]

\* the session holds exactly one step, the suggestion of main.py:124
HoldsOnlyTheStaticFallback(session) ==
    /\ Len(session.steps_tried) = 1
    /\ session.steps_tried[1].step = STATIC_STEPS_ON_ERROR

\* the step's call started the session of its conversation
SessionStartedInStep ==
    /\ reply'.conversation_id \notin DOMAIN troubleshooting_sessions
    /\ reply'.conversation_id \in DOMAIN troubleshooting_sessions'

\* C19 as stated: after a call in which any oracle invocation failed, every session
\* has at least one step and as many attempts as steps, every incident is complete,
\* and a session started in that call holds exactly one step, the static fallback
\* suggestion.
OracleFailureLeavesStaticFallbackSession ==
    [][(ChatStep /\ reply'.failed # {})
          => /\ StoresConsistent(incidents', troubleshooting_sessions')
             /\ SessionStartedInStep
                   => HoldsOnlyTheStaticFallback(
                          troubleshooting_sessions'[reply'.conversation_id])]_vars

\* C19: after a call in which any oracle invocation failed, every session has at
\* least one step and as many attempts as steps and every incident record carries
\* all its fields; a session started in a call whose troubleshooting-steps
\* invocation failed holds exactly one step, the static fallback suggestion.
OracleFailureLeavesConsistentState ==
    [][(ChatStep /\ reply'.failed # {})
          => /\ StoresConsistent(incidents', troubleshooting_sessions')
             /\ (SessionStartedInStep /\ "steps" \in reply'.failed)
                   => HoldsOnlyTheStaticFallback(
                          troubleshooting_sessions'[reply'.conversation_id])]_vars

\* a call whose two oracle invocations both failed started a session, while the
\* store holds an incident
SessionStartedOnFailedOracle ==
    /\ reply.endpoint = "chat" /\ reply.outcome = "response"
    /\ reply.failed = {"triage", "steps"}
    /\ reply.conversation_id \in DOMAIN troubleshooting_sessions
    /\ troubleshooting_sessions[reply.conversation_id].attempts = 1
    /\ Len(incidents) >= 1

\* C20: between requests, the attempt counter of every troubleshooting session
\* equals the number of its recorded steps and lies between 1 and 2: no session
\* ever records a third step.
AttemptsCountStepsUpToTwo ==
    \A c \in DOMAIN troubleshooting_sessions :
        LET session == troubleshooting_sessions[c]
        IN  /\ session.attempts = Len(session.steps_tried)
            /\ session.attempts \in 1..2

\* a session holds its second step
SessionHoldsTwoSteps ==
    \E c \in DOMAIN troubleshooting_sessions :
        /\ troubleshooting_sessions[c].attempts = 2
        /\ Len(troubleshooting_sessions[c].steps_tried) = 2

\* the suggested texts of the steps of a session, in order
SuggestedTexts(session) == [i \in DOMAIN session.steps_tried |-> session.steps_tried[i].step]

\* the step handles a tenant's issue report for a conversation that has a session
IssueReportDuringSessionStep ==
    /\ TenantChatStep
    /\ reply'.conversation_id \in DOMAIN troubleshooting_sessions
    /\ Classify(reply'.message).is_issue_report

\* C21: while a troubleshooting session exists for a conversation, a tenant message
\* that is itself an issue report does not restart the session: a session that is
\* still there after the call has its original issue text and category, every step
\* it had, in order, and an attempt counter that is not lower.
IssueReportDuringSessionDoesNotRestart ==
    [][IssueReportDuringSessionStep
          => LET c == reply'.conversation_id
                 old == troubleshooting_sessions[c]
             IN  c \in DOMAIN troubleshooting_sessions'
                    => LET new == troubleshooting_sessions'[c]
                       IN  /\ new.issue = old.issue
                           /\ new.category = old.category
                           /\ IsPrefixOf(SuggestedTexts(old), SuggestedTexts(new))
                           /\ new.attempts >= old.attempts
                           /\ new.attempts = Len(new.steps_tried)]_vars

\* an issue report other than the session's issue was answered with a second
\* suggestion for the session's issue
SecondIssueReportContinuedSession ==
    /\ TenantChatReturned /\ reply.outcome = "response"
    /\ Classify(reply.message).is_issue_report
    /\ reply.conversation_id \in DOMAIN troubleshooting_sessions
    /\ troubleshooting_sessions[reply.conversation_id].issue # reply.message
    /\ troubleshooting_sessions[reply.conversation_id].attempts = 2

\* a session of conversation c was ended before: the transcript holds the closing
\* reply of a resolution (main.py:311) or the reply of a threshold escalation
\* (main.py:325)
SessionEndedBefore(c) ==
    \E i \in DOMAIN Transcript(conversations, c) :
        /\ Transcript(conversations, c)[i].role = "assistant"
        /\ \/ Transcript(conversations, c)[i].content = RESPONSE_RESOLVED
           \/ StartsWith(Transcript(conversations, c)[i].content,
                         "I've tried troubleshooting this issue")

\* the step's call ended the session: closing reply or threshold ticket
SessionEndingStep ==
    /\ TenantChatStep
    /\ reply'.outcome = "response"
    /\ reply'.conversation_id \in DOMAIN troubleshooting_sessions
    /\ \/ reply'.response = RESPONSE_RESOLVED
       \/ StartsWith(reply'.response, "I've tried troubleshooting this issue")

\* the step handles a fixable issue report of a conversation whose session was ended
IssueReportAfterSessionEndStep ==
    /\ TenantChatStep
    /\ FixableIssueReport(reply'.message)
    /\ reply'.conversation_id \notin DOMAIN troubleshooting_sessions
    /\ SessionEndedBefore(reply'.conversation_id)

\* the session of conversation c holds message m as its issue and one first
\* suggestion, with no tenant response yet
FreshSessionFor(sessions, c, m) ==
    /\ c \in DOMAIN sessions
    /\ sessions[c].issue = m
    /\ sessions[c].attempts = 1
    /\ Len(sessions[c].steps_tried) = 1
    /\ sessions[c].steps_tried[1].tenant_response = ""

PositiveReplyStep ==
    /\ TenantChatStep
    /\ find_troubleshooting_session(troubleshooting_sessions, reply'.conversation_id)
    /\ Classify(reply'.message).has_positive
    /\ ~Classify(reply'.message).has_negative
    /\ ~EscalationBranchApplies

\* C23: a tenant message during an active session that is resolution-positive and not
\* resolution-negative (the escalation-confirmation branch not applying) deletes the
\* session, leaves the incident store unchanged and is answered with
\* incident_created = false and no incident id.
PositiveReplyEndsSessionWithoutIncident ==
    [][PositiveReplyStep
          => /\ reply'.conversation_id \notin DOMAIN troubleshooting_sessions'
             /\ incidents' = incidents
             /\ reply'.outcome = "response"
             /\ reply'.incident_created = FALSE
             /\ reply'.incident_id = None]_vars

\* "it works" ended a session after its second suggestion
PositiveReplyEndedSession ==
    /\ TenantChatReturned /\ reply.message = T_WORKS
    /\ reply.response = RESPONSE_RESOLVED
    /\ Len(Transcript(conversations, "conv-1")) = 6
    /\ Transcript(conversations, "conv-1")[4].content # RESPONSE_RESOLVED
    /\ IsTroubleshootingSuggestion(Transcript(conversations, "conv-1")[4].content)
    /\ troubleshooting_sessions = <<>>

\* the step handles a tenant's fixable issue report for a conversation with no
\* session and no open incident
FreshIssueReportStep ==
    /\ TenantChatStep
    /\ FixableIssueReport(reply'.message)
    /\ ~find_troubleshooting_session(troubleshooting_sessions, reply'.conversation_id)
    /\ find_open_incident(incidents, reply'.conversation_id) = None

EscalationCreatedIncidentStep ==
    /\ TenantChatStep
    /\ EscalationBranchApplies
    /\ reply'.incident_created

\* positions, in the transcript the step found, of the tenant messages that are no
\* escalation confirmations
EarlierTenantReports ==
    LET msgs == Transcript(conversations, reply'.conversation_id)
    IN  {i \in DOMAIN msgs :
            /\ msgs[i].role = "user" /\ msgs[i].sender_type = "TENANT"
            /\ ~Classify(msgs[i].content).is_escalation_request}

\* the text of the last message among the positions, or the generic description
LastTextOrGeneric(positions) ==
    LET msgs == Transcript(conversations, reply'.conversation_id)
        last == CHOOSE i \in positions : \A j \in positions : j <= i
    IN  IF positions = {} THEN "User requested escalation: " \o reply'.message
        ELSE msgs[last].content

\* the description of the incident the step created
CreatedDescription == IncidentById(incidents', reply'.incident_id).description

\* C25 as stated: when the escalation-confirmation branch fires, the description of
\* the created incident is the text of the most recent earlier message that a tenant
\* sent and that is not itself an escalation confirmation; if there is none it is
\* the generic text built from the confirming message.
EscalationDescribesLastTenantReport ==
    [][EscalationCreatedIncidentStep
          => CreatedDescription = LastTextOrGeneric(EarlierTenantReports)]_vars

\* C25: the same, the message looked for being the most recent earlier non-empty
\* tenant message that is no escalation confirmation; the description is the generic
\* text also when the text of that message is "User requested escalation".
EscalationDescribesLastNonEmptyTenantReport ==
    [][EscalationCreatedIncidentStep
          => LET msgs == Transcript(conversations, reply'.conversation_id)
                 found == LastTextOrGeneric({i \in EarlierTenantReports :
                                                msgs[i].content # ""})
             IN  CreatedDescription =
                    IF found = "User requested escalation"
                    THEN "User requested escalation: " \o reply'.message
                    ELSE found]_vars

\* "Yes" escalated the tenant's issue report, past the landlord's message after it
EscalatedPastLandlordMessage ==
    LET msgs == Transcript(conversations, "conv-1")
    IN  /\ TenantChatReturned /\ reply.message = T_YES /\ reply.incident_created
        /\ Len(msgs) = 5
        /\ msgs[1].content = T_ISSUE
        /\ msgs[3].sender_type = "LANDLORD" /\ msgs[3].content = T_VISIT
        /\ IncidentById(incidents, reply.incident_id).description = T_ISSUE

\* the step handles a tenant's unresolved reply for a conversation that has a session
UnresolvedReplyStep ==
    /\ TenantChatStep
    /\ find_troubleshooting_session(troubleshooting_sessions, reply'.conversation_id)
    /\ UnresolvedReply(reply'.message)

\* what the summary of main.py:78-82 says of attempt i with the given suggestion and
\* tenant response
SummaryOfAttempt(i, step, tenant_response) ==
    ("Attempt " \o DigitStr(i) \o ":\n")
    \o ("  - Suggested: " \o step \o "\n")
    \o (IF tenant_response # "" THEN "  - Tenant response: " \o tenant_response \o "\n"
        ELSE "")

\* what the summary says of attempts i and later of the steps `old`, the last of
\* them with tenant response `last_response`, the others with the recorded one
RECURSIVE SummaryOfAttempts(_, _, _)
SummaryOfAttempts(old, last_response, i) ==
    IF i > Len(old) THEN ""
    ELSE SummaryOfAttempt(i, old[i].step,
                          IF i = Len(old) THEN last_response ELSE old[i].tenant_response)
         \o SummaryOfAttempts(old, last_response, i + 1)

\* every step the session had before the step is, with the reply recorded for it,
\* still in the session or in the summary of the incident created at the threshold;
\* the last of them carries the step's message
RepliesKeptStepByStep ==
    LET c == reply'.conversation_id
        session == troubleshooting_sessions[c]
        old == session.steps_tried
        n == Len(old)
        response(i) == IF i = n THEN reply'.message ELSE old[i].tenant_response
    IN  IF c \in DOMAIN troubleshooting_sessions'
        THEN \A i \in 1..n :
                /\ troubleshooting_sessions'[c].steps_tried[i].step = old[i].step
                /\ troubleshooting_sessions'[c].steps_tried[i].tenant_response = response(i)
        ELSE /\ reply'.incident_created
             /\ IncidentById(incidents', reply'.incident_id).description
                   = session.issue \o "\n\n=== TROUBLESHOOTING ATTEMPTS ===\n"
                     \o "Original issue: " \o session.issue \o "\n\n"
                     \o "Troubleshooting attempts: " \o DigitStr(n) \o "\n\n"
                     \o SummaryOfAttempts(old, reply'.message, 1)

\* C26 as stated: a tenant's unresolved reply during an active session is attached
\* as the tenant response of the last recorded step only: suggestions and tenant
\* responses of the earlier steps are unchanged, and at the threshold each step of
\* the summary carries the reply given to it.
UnresolvedReplyAttachedToLastStepOnly ==
    [][UnresolvedReplyStep => RepliesKeptStepByStep]_vars

\* C26: the same for a reply that does not take the escalation-confirmation branch.
UnconfirmingUnresolvedReplyAttachedToLastStepOnly ==
    [][(UnresolvedReplyStep /\ ~EscalationBranchApplies) => RepliesKeptStepByStep]_vars

\* the ticket created at the threshold lists "still broken" for the first suggestion
\* and "The AC is not working" for the second
SummaryCarriesBothReplies ==
    /\ TenantChatReturned /\ reply.incident_created
    /\ UserTexts("conv-1") = <<T_ISSUE, T_BROKEN, T_ISSUE>>
    /\ SummaryStepCount(IncidentById(incidents, reply.incident_id).description) = 2
    /\ Contains(IncidentById(incidents, reply.incident_id).description,
                "  - Tenant response: " \o T_BROKEN \o "\nAttempt 2:")
    /\ Contains(IncidentById(incidents, reply.incident_id).description,
                "  - Tenant response: " \o T_ISSUE \o "\n")

\* the step's chat call has called create_incident and the call has returned
CreateIncidentStep == ChatStep /\ reply'.incident_created

\* the description the step's call gave to create_incident: the issue of the session
\* at the threshold (main.py:323), the text found in the transcript on an escalation
\* confirmation (main.py:260), else the message (main.py:361)
GivenDescription ==
    LET c == reply'.conversation_id
    IN  IF StartsWith(reply'.response, "I've tried troubleshooting this issue")
        THEN troubleshooting_sessions[c].issue
        ELSE IF StartsWith(reply'.response, "I've **escalated this to your landlord**")
        THEN escalation_description(TranscriptWithInbound, c, reply'.message)
        ELSE reply'.message

\* the troubleshooting summary the step's call gave to create_incident: that of the
\* session with the message attached at the threshold (main.py:322), else none
GivenSummary ==
    LET c == reply'.conversation_id
    IN  IF StartsWith(reply'.response, "I've tried troubleshooting this issue")
        THEN get_troubleshooting_summary(
                 attach_tenant_response(troubleshooting_sessions, c, reply'.message), c)
        ELSE ""

\* C27: create_incident adds exactly one incident under an id that was not in the
\* store before, with status reported, awaiting_more_info false, the given property
\* and conversation ids, and the given description, followed by the troubleshooting
\* summary when one is given; every incident already in the store is unchanged.
CreateIncidentAddsOneCompleteIncident ==
    [][CreateIncidentStep
          => LET n == Len(incidents)
                 new == incidents'[n + 1]
             IN  /\ Len(incidents') = n + 1
                 /\ SubSeq(incidents', 1, n) = incidents
                 /\ new.id \notin IncidentIds(incidents)
                 /\ new.id = reply'.incident_id
                 /\ new.status = "reported"
                 /\ new.awaiting_more_info = FALSE
                 /\ new.property_id = PROPERTY_ID
                 /\ new.conversation_id = reply'.conversation_id
                 /\ IF GivenSummary = "" THEN new.description = GivenDescription
                    ELSE /\ StartsWith(new.description, GivenDescription)
                         /\ EndsWith(new.description, GivenSummary)
                         /\ Len(new.description) > Len(GivenDescription) + Len(GivenSummary)]_vars

\* a second incident, created at the threshold with a summary, next to the unchanged
\* first one
IncidentWithSummaryAddedToStore ==
    /\ TenantChatReturned /\ reply.incident_created
    /\ Len(incidents) = 2
    /\ incidents[1].id # incidents[2].id
    /\ SummaryStepCount(incidents[1].description) = 0
    /\ SummaryStepCount(incidents[2].description) = 2

\* the step is a call of update_incident with an id that no incident of the store has
UpdateUnknownIncidentStep ==
    /\ calls' = calls + 1
    /\ reply'.endpoint = "update_incident"
    /\ reply'.incident_id \notin IncidentIds(incidents)

\* C28: update_incident with an incident id that is not in the store is a silent
\* no-op: it raises no error and leaves the incident store, every session and every
\* conversation unchanged.
UpdateOfUnknownIncidentIsNoOp ==
    [][UpdateUnknownIncidentStep
          => /\ reply'.outcome = "response"
             /\ incidents' = incidents
             /\ troubleshooting_sessions' = troubleshooting_sessions
             /\ conversations' = conversations]_vars

\* update_incident was called with an unknown id on a store that holds an incident,
\* while a session is active
UnknownIncidentUpdatedInFilledStore ==
    /\ reply.endpoint = "update_incident"
    /\ reply.incident_id = UNKNOWN_INCIDENT_ID
    /\ Len(incidents) = 1
    /\ "conv-1" \in DOMAIN troubleshooting_sessions

\* C30: a chat call with role LANDLORD changes nothing except appending the
\* landlord's message to the transcript: the incident store and the troubleshooting
\* sessions are unchanged, also when the text is an escalation confirmation after
\* an offer or an unfixable report, or arrives during an active session.
LandlordCallOnlyAppendsItsMessage ==
    [][(ChatStep /\ reply'.user_role = "LANDLORD")
          => /\ conversations' = TranscriptWithInbound
             /\ Transcript(conversations', reply'.conversation_id)
                   = Append(Transcript(conversations, reply'.conversation_id),
                            [role |-> "user", content |-> reply'.message,
                             sender_id |-> "landlord-1", sender_type |-> "LANDLORD",
                             metadata |-> NO_METADATA])
             /\ incidents' = incidents
             /\ troubleshooting_sessions' = troubleshooting_sessions
             /\ calendar_events' = calendar_events]_vars

\* during an active session whose suggestion offered escalation, the landlord sent a
\* text that is an escalation confirmation and an unfixable report
LandlordConfirmedAfterOffer ==
    LET msgs == Transcript(conversations, "conv-1")
    IN  /\ reply.endpoint = "chat" /\ reply.user_role = "LANDLORD"
        /\ Classify(reply.message).is_escalation_request
        /\ Classify(reply.message).is_unfixable_issue
        /\ "conv-1" \in DOMAIN troubleshooting_sessions
        /\ Len(msgs) = 3
        /\ escalation_confirmed(conversations, "conv-1", reply.message)
        /\ incidents = <<>>

\* C31: incident status only moves from reported to scheduled: every incident is
\* created with status reported, a status changes only from reported to scheduled
\* and only in a calendar call whose event names the incident, no incident leaves
\* the store, and a scheduled incident stays scheduled under chat, triage and
\* calendar calls.
StatusOnlyMovesFromReportedToScheduled ==
    [][/\ Len(incidents') >= Len(incidents)
       /\ \A i \in DOMAIN incidents' :
             IF i > Len(incidents)
             THEN incidents'[i].status = "reported"
             ELSE /\ incidents'[i].id = incidents[i].id
                  /\ \/ incidents'[i].status = incidents[i].status
                     \/ /\ incidents[i].status = "reported"
                        /\ incidents'[i].status = "scheduled"
                        /\ reply'.endpoint = "calendar"
                        /\ reply'.incident_id = incidents[i].id]_vars

\* an incident scheduled by a first event is still scheduled after a cancelled event
\* for it, next to an incident that is reported
ScheduledIncidentStaysScheduled ==
    /\ reply.endpoint = "calendar"
    /\ Len(calendar_events) = 2 /\ calendar_events[2].status = "cancelled"
    /\ calendar_events[1].incident_id = calendar_events[2].incident_id
    /\ \E i \in DOMAIN incidents :
          /\ incidents[i].id = reply.incident_id
          /\ incidents[i].status = "scheduled"

\* the step handles, with the oracle available and with no session and no open
\* incident, a tenant's question that is neither an issue report nor unfixable
QuestionStep ==
    /\ TenantChatStep
    /\ llm
    /\ ~find_troubleshooting_session(troubleshooting_sessions, reply'.conversation_id)
    /\ find_open_incident(incidents, reply'.conversation_id) = None
    /\ Classify(reply'.message).is_question
    /\ ~Classify(reply'.message).is_issue_report
    /\ ~Classify(reply'.message).is_unfixable_issue

\* C32: with no active session and no open incident, a tenant's question (no issue
\* report, not unfixable) handled while the oracle is available is answered with the
\* text rag_service.query returns, not with the handler's generic canned message.
QuestionAnsweredByRetrieval ==
    [][QuestionStep
          => /\ reply'.outcome = "response"
             /\ reply'.response \notin {RESPONSE_SAVED, RESPONSE_NO_LLM}]_vars

\* the step is a call of POST /api/triage that returned a triage result
TriageAnsweredStep ==
    calls' = calls + 1 /\ reply'.endpoint = "triage" /\ reply'.outcome = "response"

\* the reply of the step is one that only the handling without oracle produces:
\* the fixed triage result of rag_service.py:387-393 or the canned reply of main.py:415
HandledWithoutOracle ==
    \/ TriageAnsweredStep /\ reply'.oracle = "absent"
    \/ TriageAnsweredStep /\ reply'.confidence = "0.5"
    \/ ChatStep /\ reply'.outcome = "response" /\ reply'.response = RESPONSE_NO_LLM

\* C33: an oracle failure counts for its call only. No call changes rag_service.llm,
\* and every call made while it is set, whatever failed in the calls before it, is
\* handled with the oracle: it never returns the result of the handling without oracle.
OracleFailureIsPerCall ==
    [][/\ llm' = llm
       /\ llm => ~HandledWithoutOracle]_vars

\* a session holds the suggestion of a failed invocation, and the call made after it
\* returned the triage result the oracle produced
OracleAnsweredAfterFailure ==
    /\ \E c \in DOMAIN troubleshooting_sessions :
          /\ troubleshooting_sessions[c].steps_tried # <<>>
          /\ troubleshooting_sessions[c].steps_tried[1].step = STATIC_STEPS_ON_ERROR
    /\ reply.endpoint = "triage"
    /\ reply.outcome = "response"
    /\ reply.oracle = "json"
    /\ reply.failed = {}

\* the call before the step handled a tenant's unresolved reply while the session of
\* its conversation had reached the threshold: it escalated the session (main.py:322-337),
\* or it left the session, still at the threshold, behind an error or an incident
HandledAtThreshold ==
    /\ reply.endpoint = "chat" /\ reply.user_role = "TENANT"
    /\ ~Classify(reply.message).is_resolved
    /\ \/ reply.outcome = "response"
          /\ StartsWith(reply.response, "I've tried troubleshooting this issue")
       \/ /\ find_troubleshooting_session(troubleshooting_sessions, reply.conversation_id)
          /\ threshold_reached(troubleshooting_sessions[reply.conversation_id])
          /\ (reply.outcome = "error" \/ reply.incident_created)

\* the step handles the second of two unresolved replies that a tenant sent while the
\* session had reached the threshold; chat has no await, so the event loop runs the
\* two handlers one after the other
SecondReplyAtThresholdStep ==
    /\ HandledAtThreshold
    /\ TenantChatStep
    /\ reply'.conversation_id = reply.conversation_id
    /\ ~Classify(reply'.message).is_resolved

IncidentsCreatedBy(r) == IF r.incident_created THEN 1 ELSE 0

\* C34: two unresolved tenant replies of one conversation, both sent while its session
\* had reached the escalation threshold, create exactly one incident between them.
RacingRepliesCreateOneIncident ==
    [][SecondReplyAtThresholdStep
          => IncidentsCreatedBy(reply) + IncidentsCreatedBy(reply') = 1]_vars

\* the last call was a chat call that took the branch of main.py:275-290: the only
\* reply that names an incident without having created one
OpenIncidentBranchTaken ==
    /\ reply.endpoint = "chat" /\ reply.outcome = "response"
    /\ reply.incident_id # None /\ ~reply.incident_created

\* C35: in every reachable state no incident has awaiting_more_info = true,
\* find_open_incident returns no id for any conversation, and no chat call has taken
\* the open-incident continuation branch.
NoIncidentEverAwaitsMoreInfo ==
    /\ \A i \in DOMAIN incidents : ~incidents[i].awaiting_more_info
    /\ \A c \in DOMAIN conversations \cup {"conv-1", "conv-2"} :
          find_open_incident(incidents, c) = None
    /\ ~OpenIncidentBranchTaken

\* a reported incident of the conversation was updated, and the tenant's next message
\* started a troubleshooting session instead of continuing that incident
ChatAfterUpdatedIncidentStartsSession ==
    /\ Len(incidents) = 1
    /\ incidents[1].conversation_id = "conv-1"
    /\ incidents[1].status = "reported"
    /\ incidents[1].description = T_GAS \o "\n\nAdditional details: " \o T_DETAILS
    /\ reply.endpoint = "chat" /\ reply.message = T_ISSUE
    /\ find_troubleshooting_session(troubleshooting_sessions, "conv-1")

TICKET_CONFIRMATION_OPENING == "I've **escalated this to your landlord**"

\* the reply text is the ticket confirmation of the escalation-confirmation branch
\* (main.py:262-269)
IsTicketConfirmation(content) == StartsWith(content, TICKET_CONFIRMATION_OPENING)

\* the newest assistant message of the transcript msgs is the ticket confirmation of
\* the escalation-confirmation branch: no assistant message, so no offer, came after it
TicketConfirmationIsNewestReply(msgs) ==
    \E i \in DOMAIN msgs :
        /\ IsAssistantMessage(msgs[i])
        /\ IsTicketConfirmation(msgs[i].content)
        /\ \A j \in (i + 1)..Len(msgs) : ~IsAssistantMessage(msgs[j])

\* the step handles a tenant's escalation confirmation sent after the
\* escalation-confirmation branch created an incident, with no reply in between
RepeatedConfirmationStep ==
    /\ TenantChatStep
    /\ Classify(reply'.message).is_escalation_request
    /\ TicketConfirmationIsNewestReply(Transcript(conversations, reply'.conversation_id))

\* C36: once the escalation-confirmation branch has created an incident, a further
\* tenant confirmation sent before any new offer does not take that branch again: the
\* ticket confirmation is no escalation offer, and the call returns no second ticket
\* confirmation.
OneOfferYieldsOneEscalation ==
    [][RepeatedConfirmationStep
          => /\ ~OffersEscalation(reply.response)
             /\ ~EscalationBranchApplies
             /\ ~(reply'.outcome = "response" /\ IsTicketConfirmation(reply'.response))]_vars

\* a "yes" that followed the ticket confirmation was answered without a new incident
RepeatedYesCreatedNoIncident ==
    /\ reply.endpoint = "chat" /\ reply.message = T_YES /\ reply.outcome = "response"
    /\ ~reply.incident_created
    /\ Len(incidents) = 1
    /\ LET msgs == Transcript(conversations, "conv-1")
       IN  /\ Len(msgs) >= 4
           /\ IsTicketConfirmation(msgs[Len(msgs) - 2].content)
           /\ msgs[Len(msgs) - 3].content = T_YES

\* the assistant messages of conversation c that carry an incidentId
TicketMessages(convs, c) ==
    {i \in DOMAIN convs[c] :
        IsAssistantMessage(convs[c][i]) /\ convs[c][i].metadata.incidentId # None}

\* C37: in every reachable state, every assistant message whose metadata carries an
\* incidentId names an incident that is in the store and belongs to the conversation
\* holding the message; so no state shows such a message before its incident is stored.
TicketMessagesNameStoredIncidents ==
    \A c \in DOMAIN conversations :
        \A i \in TicketMessages(conversations, c) :
            \E k \in DOMAIN incidents :
                /\ incidents[k].id = conversations[c][i].metadata.incidentId
                /\ incidents[k].conversation_id = c

\* two conversations each hold a message that names an incident of their own
TwoConversationsHoldTicketMessages ==
    /\ "conv-1" \in DOMAIN conversations /\ "conv-2" \in DOMAIN conversations
    /\ TicketMessages(conversations, "conv-1") # {}
    /\ TicketMessages(conversations, "conv-2") # {}
    /\ Len(incidents) = 2

\* position, in the transcript the step found, of the canned reply of main.py:415
\* when it is the newest assistant message and no tenant message came after it;
\* 0 when there is no such reply
CannedReplyPosition ==
    LET msgs == Transcript(conversations, reply'.conversation_id)
        at == {i \in DOMAIN msgs :
                  /\ IsAssistantMessage(msgs[i])
                  /\ msgs[i].content = RESPONSE_NO_LLM
                  /\ \A j \in (i + 1)..Len(msgs) :
                        ~IsAssistantMessage(msgs[j]) /\ msgs[j].sender_type # "TENANT"}
    IN  IF at = {} THEN 0 ELSE CHOOSE i \in at : TRUE

\* the text of the tenant message that the canned reply answered
CannedReplyAnswered ==
    Transcript(conversations, reply'.conversation_id)[CannedReplyPosition - 1].content

\* with the oracle unavailable, the step handles the escalation confirmation that is
\* the tenant's next message after the canned reply
ConfirmationAfterCannedReplyStep ==
    /\ ~llm
    /\ TenantChatStep
    /\ Classify(reply'.message).is_escalation_request
    /\ CannedReplyPosition > 0

\* the step created one incident and returned its ticket confirmation
EscalationCreatedOneIncident ==
    /\ reply'.outcome = "response"
    /\ reply'.incident_created
    /\ IsTicketConfirmation(reply'.response)
    /\ Len(incidents') = Len(incidents) + 1

\* C38 as stated: with the oracle unavailable, the canned reply to a tenant message
\* is an escalation offer; the escalation confirmation sent as the next tenant message
\* creates an incident whose description is the tenant message the canned reply answered.
ConfirmedCannedOfferDescribesAnsweredMessage ==
    [][ConfirmationAfterCannedReplyStep
          => /\ EscalationCreatedOneIncident
             /\ CreatedDescription = CannedReplyAnswered]_vars

\* the text can serve as the description main.py:250-259 looks for
UsableAsDescription(text) ==
    /\ text # ""
    /\ ~Classify(text).is_escalation_request
    /\ text # "User requested escalation"

\* C38: with the oracle unavailable, the escalation confirmation sent as the next
\* tenant message after the canned reply creates an incident. Its description is the
\* message the canned reply answered when that message is not empty, is no escalation
\* request and is not "User requested escalation". Otherwise the most recent earlier
\* tenant message that is not empty and no escalation request is looked at: the
\* description is its text, or the generic text when there is no such message or its
\* text is "User requested escalation".
ConfirmedCannedOfferDescribesLastUsableMessage ==
    [][ConfirmationAfterCannedReplyStep
          => /\ EscalationCreatedOneIncident
             /\ LET msgs == Transcript(conversations, reply'.conversation_id)
                    found == LastTextOrGeneric({i \in EarlierTenantReports :
                                                   msgs[i].content # ""})
                IN  CreatedDescription =
                       IF UsableAsDescription(CannedReplyAnswered) THEN CannedReplyAnswered
                       ELSE IF found = "User requested escalation"
                       THEN "User requested escalation: " \o reply'.message
                       ELSE found]_vars

\* "Yes" after the canned reply to a question, with the landlord's message in
\* between, created an incident that describes the question
CannedOfferConfirmedPastLandlordMessage ==
    /\ ~llm
    /\ reply.endpoint = "chat" /\ reply.message = T_YES /\ reply.incident_created
    /\ Len(incidents) = 1
    /\ incidents[1].description = T_QUESTION
    /\ LET msgs == Transcript(conversations, "conv-1")
       IN  /\ Len(msgs) = 5
           /\ msgs[2].content = RESPONSE_NO_LLM
           /\ msgs[3].sender_type = "LANDLORD"

\* C39: a chat call that ends with an error leaves the incident store and the
\* troubleshooting sessions, tenant responses on the steps included, as they were
\* before the call; it only appends the inbound user message to the transcript.
FailedCallOnlyAppendsInboundMessage ==
    [][(ChatStep /\ reply'.outcome = "error")
          => /\ incidents' = incidents
             /\ troubleshooting_sessions' = troubleshooting_sessions
             /\ conversations' = TranscriptWithInbound]_vars

\* the step is a call of load_maintenance_history for the property of the call before it
LoadForSamePropertyStep ==
    /\ calls' = calls + 1
    /\ history_call'.op = "load"
    /\ history_call'.property_id = history_call.property_id

\* the record that add_maintenance_record was given, as load_maintenance_history
\* returns records
AddedAsRecord(args) ==
    [asset_id |-> args.asset_id, asset_name |-> args.asset_name,
     asset_type |-> args.asset_type, date |-> strptime(args.maintenance_date),
     maintenance_type |-> args.maintenance_type]

\* C40: the load that follows an add_maintenance_record for its property re-reads the
\* history file and returns a list that holds the added record when the date of the
\* record is well-formed; a load that follows a load for its property reads nothing
\* and returns the same list.
HistoryCacheNeverStale ==
    [][/\ (LoadForSamePropertyStep /\ history_call.op = "add")
             => /\ history_call'.read_file
                /\ ~strptime_raises(history_call.args.maintenance_date)
                      => \E i \in DOMAIN history_call'.result :
                            history_call'.result[i] = AddedAsRecord(history_call.args)
       /\ (LoadForSamePropertyStep /\ history_call.op = "load")
             => /\ ~history_call'.read_file
                /\ history_call'.result = history_call.result]_vars

====
